---- MODULE Spec2Model ----
(***************************************************************************)
(* A model of the VR-RPGAI conversation back end (src/app):                *)
(*   - LLMProviderManager (providers/manager.py): backend resolution;      *)
(*   - MemoryService (services/memory_service.py): the memory gateway;     *)
(*   - send_message_with_memory (services/conversation_service_mem0.py):   *)
(*     the turn, one step per await point;                                 *)
(*   - the system-message assembly of both conversation services;          *)
(*   - TTSService (services/tts_service.py) and STTService                 *)
(*     (services/stt_service.py): the audio clients.                       *)
(* Strings are sequences of tokens: a literal of the source is one token,  *)
(* free text (a document body) is one token per character.                 *)
(***************************************************************************)
EXTENDS Integers, Sequences, FiniteSets, TLC

VARIABLES
    settings,      \* app.config.settings, fixed at start-up
    initialized,   \* LLMProviderManager._initialized
    providers,     \* LLMProviderManager.providers, in insertion order
    gen,           \* per caller: the Router.generate call in progress
    pc,            \* per session: position in send_message_with_memory
    inp,           \* per session: the arguments of the turn
    loc,           \* per session: the local variables of the turn
    obs,           \* per session: what happened in the turn (log, failures)
    outcome,       \* per session: what the caller of the turn got
    store,         \* the relational store: committed rows
    mem,           \* per session: the memory-engine call in progress
    cache,         \* the audio cache: the files, by the text hashed into the name
    turns,         \* calls started so far: turns, or calls of synthesize
    asm,           \* the last system message assembled (assembly runs)
    tts,           \* per caller: the TTSService.synthesize call in progress
    made,          \* the artifacts synthesize has returned since the last clear
    stt,           \* the STTService.transcribe call in progress
    health,        \* the LLMProviderManager.health_check call last made
    resp,          \* the LLMResponse a client last built from a backend's answer
    wire,          \* the transcribe call that streams its audio: what it has written
    svc_health     \* per audio service: its health_check call

vars == <<settings, initialized, providers, gen, pc, inp, loc, obs, outcome,
          store, mem, cache, turns, asm, tts, made, stt, health, resp, wire,
          svc_health>>


----------------------------------------------------------------------------
(* Bounds and values                                                       *)

MaxTurns == 2
MaxDocs == 2

NONE == "None"

Sessions == {"s1", "s2"}

Range(f) == {f[i] : i \in DOMAIN f}

Min(a, b) == IF a < b THEN a ELSE b

Reverse(q) == [i \in 1..Len(q) |-> q[Len(q) + 1 - i]]

Take(q, n) == SubSeq(q, 1, Min(Len(q), n))

\* Python truthiness of an Optional[str]: None and "" are falsy.
Falsy(x) == x \in {NONE, ""}

----------------------------------------------------------------------------
(* providers/manager.py: LLMProviderManager                                *)

\* the provider names a character row or a request may carry
RequestedProviders == {NONE, "", "ollama", "openrouter", "vllm"}
RequestedModels == {NONE, "", "mistral"}
DefaultProviders == {"ollama", "openrouter", "vllm"}

\* the default model each client was constructed with
DefaultModel(name) == IF name = "ollama" THEN "granite4:micro"
                      ELSE "meta-llama/llama-3.1-8b-instruct:free"

\* initialize(): ollama first, then openrouter, each only if configured and
\* constructed without error
ManagerInitialize(st) ==
    (IF st.OLLAMA_BASE_URL THEN <<"ollama">> ELSE <<>>)
    \o (IF st.OPENROUTER_API_KEY THEN <<"openrouter">> ELSE <<>>)

NoError == [kind |-> NONE, text |-> NONE]
NoResult == [content |-> <<>>, provider |-> NONE, model |-> NONE]

\* manager.py line 85: raise ValueError("No LLM providers are configured")
NoProvidersError == [kind |-> "ValueError", text |-> "No LLM providers are configured"]

\* generate(), lines 77-90: the provider resolved for a request
ResolveProviderFallbackToDefault(provs, default, provider) ==
    LET p1 == IF Falsy(provider) THEN default ELSE provider
    IN  IF p1 \in Range(provs) THEN [error |-> NoError, provider |-> p1]
        ELSE IF provs = <<>> THEN [error |-> NoProvidersError, provider |-> NONE]
        ELSE IF default \in Range(provs) THEN [error |-> NoError, provider |-> default]
        ELSE [error |-> NoError, provider |-> provs[1]]

\* a faulty variant: no check for an empty provider table, so that available[0]
\* raises the IndexError of an empty list
ResolveProviderNoFloor(provs, default, provider) ==
    LET p1 == IF Falsy(provider) THEN default ELSE provider
    IN  IF p1 \in Range(provs) THEN [error |-> NoError, provider |-> p1]
        ELSE IF provs = <<>>
             THEN [error |-> [kind |-> "IndexError", text |-> "list index out of range"],
                   provider |-> NONE]
        ELSE [error |-> NoError, provider |-> provs[1]]

ResolveProvider(provs, default, provider) ==
    LET p1 == IF Falsy(provider) THEN default ELSE provider
    IN  IF p1 \in Range(provs) THEN [error |-> NoError, provider |-> p1]
        ELSE IF provs = <<>> THEN [error |-> NoProvidersError, provider |-> NONE]
        ELSE [error |-> NoError, provider |-> provs[1]]

NoCall == [state |-> "none", provider |-> NONE, model |-> NONE, calls |-> <<>>,
           error |-> NoError, result |-> NoResult]

\* a faulty variant: the fallback client is called without the override
ManagerGenerateFallbackDefaultModel(s, provider, model) ==
    LET provs == IF initialized THEN providers ELSE ManagerInitialize(settings)
        r == ResolveProvider(provs, settings.DEFAULT_LLM_PROVIDER, provider)
        asked == IF Falsy(provider) THEN settings.DEFAULT_LLM_PROVIDER ELSE provider
    IN  /\ initialized' = TRUE
        /\ providers' = provs
        /\ gen' = [gen EXCEPT ![s] =
              IF r.error # NoError
              THEN [NoCall EXCEPT !.state = "raised", !.provider = provider,
                                  !.model = model, !.error = r.error]
              ELSE [NoCall EXCEPT !.state = "inflight", !.provider = provider,
                                  !.model = model,
                                  !.calls = <<[client |-> r.provider,
                                               model |-> IF Falsy(model) \/ r.provider # asked
                                                         THEN NONE ELSE model]>>]]

\* generate(), lines 74-102 up to the await of the client: lazy initialize,
\* resolve, then one call of the selected client with the model override
\* only when it is truthy
ManagerGenerate(s, provider, model) ==
    LET provs == IF initialized THEN providers ELSE ManagerInitialize(settings)
        r == ResolveProvider(provs, settings.DEFAULT_LLM_PROVIDER, provider)
    IN  /\ initialized' = TRUE
        /\ providers' = provs
        /\ gen' = [gen EXCEPT ![s] =
              IF r.error # NoError
              THEN [NoCall EXCEPT !.state = "raised", !.provider = provider,
                                  !.model = model, !.error = r.error]
              ELSE [NoCall EXCEPT !.state = "inflight", !.provider = provider,
                                  !.model = model,
                                  !.calls = <<[client |-> r.provider,
                                               model |-> IF Falsy(model) THEN NONE ELSE model]>>]]

\* <Provider>.generate of the client called last: the model it uses
ClientModel(call) == IF call.model = NONE THEN DefaultModel(call.client) ELSE call.model

\* the exception of the client's HTTP library, re-raised as it is
\* (ollama_provider.py lines 54-56, openrouter_provider.py lines 65-67); both
\* clients sit on httpx, and a network error is the same object for both
GenerationError(client) ==
    [kind |-> "httpx.RemoteProtocolError",
     text |-> "Server disconnected without sending a response."]

\* a faulty variant: on a client error the manager tries the next configured backend
ClientGenerateRetry(s) ==
    /\ gen[s].state = "inflight"
    /\ LET call == gen[s].calls[Len(gen[s].calls)]
           rest == SelectSeq(providers, LAMBDA n : \A i \in DOMAIN gen[s].calls : gen[s].calls[i].client # n)
       IN  \/ gen' = [gen EXCEPT ![s].state = "returned",
                       ![s].result = [content |-> <<"reply">>, provider |-> call.client,
                                      model |-> ClientModel(call)]]
           \/ gen' = [gen EXCEPT ![s] =
                       IF rest = <<>>
                       THEN [@ EXCEPT !.state = "raised", !.error = GenerationError(call.client)]
                       ELSE [@ EXCEPT !.calls = Append(@, [client |-> rest[1], model |-> call.model])]]
    /\ UNCHANGED <<initialized, providers>>

\* the awaited client call ends: an LLMResponse, or the client's error, which
\* generate() lets through (manager.py line 97: return await llm.generate)
ClientGenerate(s) ==
    /\ gen[s].state = "inflight"
    /\ LET call == gen[s].calls[Len(gen[s].calls)]
       IN  \/ gen' = [gen EXCEPT ![s].state = "returned",
                       ![s].result = [content |-> <<"reply">>, provider |-> call.client,
                                      model |-> ClientModel(call)]]
           \/ gen' = [gen EXCEPT ![s].state = "raised",
                       ![s].error = GenerationError(call.client)]
    /\ UNCHANGED <<initialized, providers>>

\* what the probe of a backend gives: "ok" (the model list, a 200), "status"
\* (a response that is not a 200), "error" (the request raises)
Probes == {"ok", "status", "error"}

ClientNames == {"ollama", "openrouter"}

\* a faulty variant: the client lets the exception of its probe through
ClientHealthCheckRaising(name, probe) ==
    [raised |-> probe = "error", healthy |-> probe = "ok"]

\* ollama_provider.py lines 58-66 and openrouter_provider.py lines 69-85:
\* True when the probe succeeds, False on any exception, and for OpenRouter
\* also on a status that is not 200 (the Ollama client raises on one)
ClientHealthCheck(name, probe) == [raised |-> FALSE, healthy |-> probe = "ok"]

NoResults == [n \in {} |-> FALSE]

\* a call of health_check: the map it builds, what each backend's probe
\* gives, the probes in flight, and the starts and ends of probes so far
NoHealth == [state |-> "none", results |-> NoResults,
             probes |-> [n \in ClientNames |-> "ok"],
             running |-> {}, log |-> <<>>]

RECURSIVE HealthLoop(_, _, _, _)
\* health_check(), lines 109-113: the loop over the providers in insertion
\* order, i - 1 of them done; nothing in it catches a client's exception
HealthLoop(provs, probes, i, results) ==
    IF i > Len(provs) THEN [NoHealth EXCEPT !.state = "returned", !.results = results]
    ELSE LET r == ClientHealthCheck(provs[i], probes[provs[i]])
         IN  IF r.raised THEN [NoHealth EXCEPT !.state = "raised"]
             ELSE HealthLoop(provs, probes, i + 1, (provs[i] :> r.healthy) @@ results)

\* health_check(), lines 104-113: lazy initialize, then the loop
ManagerHealthCheck(probes) ==
    LET provs == IF initialized THEN providers ELSE ManagerInitialize(settings)
    IN  /\ initialized' = TRUE
        /\ providers' = provs
        /\ health' = [HealthLoop(provs, probes, 1, NoResults) EXCEPT !.probes = probes]

\* the start or the end of the probe of one client
ProbeEvent(what, name) == [what |-> what, name |-> name]

\* health_check(), lines 106-109: lazy initialize and the empty map
HealthBegin(probes) ==
    /\ health.state = "none"
    /\ initialized' = TRUE
    /\ providers' = IF initialized THEN providers ELSE ManagerInitialize(settings)
    /\ health' = [NoHealth EXCEPT !.state = "probing", !.probes = probes]
    /\ UNCHANGED <<settings, gen, pc, inp, loc, obs, outcome, store, mem, cache, turns,
                   asm, tts, made, stt, resp, wire, svc_health>>

\* lines 110-111, one pass of the loop up to its await: provider.health_check()
\* of the next client is called; the pass before has been awaited to its end
HealthProbeStart ==
    /\ health.state = "probing"
    /\ health.running = {}
    /\ Cardinality(DOMAIN health.results) < Len(providers)
    /\ LET name == providers[Cardinality(DOMAIN health.results) + 1]
       IN  health' = [health EXCEPT !.running = {name},
                                    !.log = Append(@, ProbeEvent("start", name))]
    /\ UNCHANGED <<settings, initialized, providers, gen, pc, inp, loc, obs, outcome,
                   store, mem, cache, turns, asm, tts, made, stt, resp, wire, svc_health>>

\* line 111: the await ends and results[name] is set
HealthProbeEnd(name) ==
    /\ health.state = "probing"
    /\ name \in health.running
    /\ LET r == ClientHealthCheck(name, health.probes[name])
       IN  health' = IF r.raised THEN [health EXCEPT !.state = "raised", !.running = {}]
                     ELSE [health EXCEPT
                             !.running = @ \ {name},
                             !.results = (name :> r.healthy) @@ @,
                             !.log = Append(@, ProbeEvent("end", name))]
    /\ UNCHANGED <<settings, initialized, providers, gen, pc, inp, loc, obs, outcome,
                   store, mem, cache, turns, asm, tts, made, stt, resp, wire, svc_health>>

\* line 113: return results
HealthReturnResults ==
    /\ health.state = "probing"
    /\ health.running = {}
    /\ Cardinality(DOMAIN health.results) = Len(providers)
    /\ health' = [health EXCEPT !.state = "returned"]
    /\ UNCHANGED <<settings, initialized, providers, gen, pc, inp, loc, obs, outcome,
                   store, mem, cache, turns, asm, tts, made, stt, resp, wire, svc_health>>

----------------------------------------------------------------------------
(* services/memory_service.py: MemoryService                               *)

\* what the engine (mem0) answers to search / get_all / add: a dict with
\* the records under 'results', or an exception
EngineOk(rs) == [ok |-> TRUE, results |-> rs]
EngineFails == [ok |-> FALSE, results |-> <<>>]

\* a memory record of the engine: the text under 'memory', under 'data', or
\* under neither (an absent key is <<>>)
Mem(memory, data) == [memory |-> memory, data |-> data]

\* what a gateway call gives its caller
Returned(v) == [raised |-> FALSE, value |-> v]
Raised == [raised |-> TRUE, value |-> <<>>]

\* a faulty variant: the gateway lets the engine's exception through
get_character_memories_raising(answer) ==
    IF answer.ok THEN Returned(answer.results) ELSE Raised

\* get_character_memories, lines 135-157: result.get('results', []), and []
\* on any exception
get_character_memories(answer) ==
    IF answer.ok THEN Returned(answer.results) ELSE Returned(<<>>)

\* get_user_global_memories, lines 176-194
get_user_global_memories(answer) ==
    IF answer.ok THEN Returned(answer.results) ELSE Returned(<<>>)

\* add_character_memory, lines 101-112
add_character_memory(answer) ==
    IF answer.ok THEN Returned(answer.results) ELSE Returned(<<>>)

----------------------------------------------------------------------------
(* System-message assembly: conversation_service_mem0.py lines 126-187 and *)
(* conversation_service.py lines 88-100                                    *)

DOC_CHAR_LIMIT == 2000
RECENT_MESSAGES_LIMIT == 5
CHARACTER_MEMORY_LIMIT == 5
GLOBAL_MEMORY_LIMIT == 3

NL == "NL"
RefDocsHeader == "**Reference Documents:**"
DocHeader == "### "
RememberHeader == "**What you remember about this user:**"
GeneralFactsHeader == "**General facts about this user:**"
GameStateHeader == "**Current Game State:**"
Bullet == "- "

\* a body of n characters; the character at a place depends on the place
Alphabet == <<"a", "b", "c", "d", "e", "f", "g">>
Body(n) == [i \in 1..n |-> Alphabet[(i % 7) + 1]]

Doc(filename, content) == [filename |-> filename, content |-> content]

\* doc.content[:2000]
Truncate(content) == SubSeq(content, 1, Min(Len(content), DOC_CHAR_LIMIT))

\* mem.get('memory', mem.get('data', ''))
MemoryText(m) == IF m.memory # <<>> THEN m.memory[1]
                 ELSE IF m.data # <<>> THEN m.data[1] ELSE ""

RECURSIVE DocsBlock(_, _)
\* the loop of lines 135-136, i documents done
DocsBlock(docs, i) ==
    IF i > Len(docs) THEN <<>>
    ELSE <<NL, DocHeader, docs[i].filename, NL>> \o Truncate(docs[i].content) \o <<NL>>
         \o DocsBlock(docs, i + 1)

RECURSIVE DocsBlockLegacy(_, _)
\* the loop of conversation_service.py lines 97-98
DocsBlockLegacy(docs, i) ==
    IF i > Len(docs) THEN <<>>
    ELSE <<NL, DocHeader, docs[i].filename, NL>> \o docs[i].content \o <<NL>>
         \o DocsBlockLegacy(docs, i + 1)

RECURSIVE MemoryLines(_, _)
\* the loops of lines 141-143 and 147-149
MemoryLines(mems, i) ==
    IF i > Len(mems) THEN <<>>
    ELSE <<Bullet, MemoryText(mems[i]), NL>> \o MemoryLines(mems, i + 1)

RECURSIVE Join(_, _)
\* ', '.join(names)
Join(names, i) ==
    IF i > Len(names) THEN <<>>
    ELSE (IF i > 1 THEN <<", ">> ELSE <<>>) \o <<names[i]>> \o Join(names, i + 1)

RECURSIVE CustomLines(_, _)
\* the loop of lines 173-174 over the items of custom_data
CustomLines(items, i) ==
    IF i > Len(items) THEN <<>>
    ELSE <<items[i][1], ": ", items[i][2], NL>> \o CustomLines(items, i + 1)

\* a game context as send_message_with_memory gets it: model_dump with
\* exclude_none, so a field is a value (<<v>>) or absent (<<>>)
GameFields == <<"location", "weather", "time_of_day", "npc_health", "player_health",
                "player_reputation", "npc_mood", "recent_event", "nearby_npcs",
                "custom_data">>
EmptyContext == [f \in Range(GameFields) |-> <<>>]

\* game_context.get(f) is truthy, for a text field: present and not ""
TruthyText(gc, f) == gc[f] # <<>> /\ gc[f][1] # ""

\* game_context.get(f) is truthy, for a list or dict field: present, not empty
TruthyList(gc, f) == gc[f] # <<>> /\ gc[f][1] # <<>>

\* a faulty variant: a health or reputation of 0 is skipped like an empty text
GameBlockSkipsZero(gc) ==
    IF gc = EmptyContext THEN <<>>
    ELSE <<NL, NL, GameStateHeader, NL>>
      \o (IF TruthyText(gc, "location") THEN <<"Location: ", gc.location[1], NL>> ELSE <<>>)
      \o (IF TruthyText(gc, "weather") THEN <<"Weather: ", gc.weather[1], NL>> ELSE <<>>)
      \o (IF TruthyText(gc, "time_of_day") THEN <<"Time: ", gc.time_of_day[1], NL>> ELSE <<>>)
      \o (IF gc.npc_health # <<>> /\ gc.npc_health[1] # 0
          THEN <<"Your health: ", ToString(gc.npc_health[1]), "%", NL>> ELSE <<>>)
      \o (IF gc.player_health # <<>> /\ gc.player_health[1] # 0
          THEN <<"Player health: ", ToString(gc.player_health[1]), "%", NL>> ELSE <<>>)
      \o (IF gc.player_reputation # <<>> /\ gc.player_reputation[1] # 0
          THEN <<"Player reputation: ", ToString(gc.player_reputation[1]), NL>> ELSE <<>>)
      \o (IF TruthyText(gc, "npc_mood") THEN <<"Your mood: ", gc.npc_mood[1], NL>> ELSE <<>>)
      \o (IF TruthyText(gc, "recent_event")
          THEN <<"Recent event: ", gc.recent_event[1], NL>> ELSE <<>>)
      \o (IF TruthyList(gc, "nearby_npcs")
          THEN <<"Nearby NPCs: ">> \o Join(gc.nearby_npcs[1], 1) \o <<NL>> ELSE <<>>)
      \o (IF TruthyList(gc, "custom_data") THEN CustomLines(gc.custom_data[1], 1) ELSE <<>>)

\* lines 152-174
GameBlock(gc) ==
    IF gc = EmptyContext THEN <<>>
    ELSE <<NL, NL, GameStateHeader, NL>>
      \o (IF TruthyText(gc, "location") THEN <<"Location: ", gc.location[1], NL>> ELSE <<>>)
      \o (IF TruthyText(gc, "weather") THEN <<"Weather: ", gc.weather[1], NL>> ELSE <<>>)
      \o (IF TruthyText(gc, "time_of_day") THEN <<"Time: ", gc.time_of_day[1], NL>> ELSE <<>>)
      \o (IF gc.npc_health # <<>>
          THEN <<"Your health: ", ToString(gc.npc_health[1]), "%", NL>> ELSE <<>>)
      \o (IF gc.player_health # <<>>
          THEN <<"Player health: ", ToString(gc.player_health[1]), "%", NL>> ELSE <<>>)
      \o (IF gc.player_reputation # <<>>
          THEN <<"Player reputation: ", ToString(gc.player_reputation[1]), NL>> ELSE <<>>)
      \o (IF TruthyText(gc, "npc_mood") THEN <<"Your mood: ", gc.npc_mood[1], NL>> ELSE <<>>)
      \o (IF TruthyText(gc, "recent_event")
          THEN <<"Recent event: ", gc.recent_event[1], NL>> ELSE <<>>)
      \o (IF TruthyList(gc, "nearby_npcs")
          THEN <<"Nearby NPCs: ">> \o Join(gc.nearby_npcs[1], 1) \o <<NL>> ELSE <<>>)
      \o (IF TruthyList(gc, "custom_data") THEN CustomLines(gc.custom_data[1], 1) ELSE <<>>)

\* line 184; sender is <<name>> when from_character_id is set and the row
\* exists, <<>> otherwise
NoteBlock(sender) ==
    IF sender = <<>> THEN <<>>
    ELSE <<NL, NL, "**Note:** This message is from ", sender[1],
           ", another character in the world. Respond as if speaking to them directly.", NL>>

\* a faulty variant: the block of the user-global memories comes first
SystemContentGlobalFirst(character, character_memories, user_global_memories, gc, sender) ==
    character.system_prompt
    \o (IF character.documents # <<>>
        THEN <<NL, NL, RefDocsHeader, NL>> \o DocsBlock(character.documents, 1) ELSE <<>>)
    \o (IF user_global_memories # <<>>
        THEN <<NL, NL, GeneralFactsHeader, NL>> \o MemoryLines(user_global_memories, 1)
        ELSE <<>>)
    \o (IF character_memories # <<>>
        THEN <<NL, NL, RememberHeader, NL>> \o MemoryLines(character_memories, 1) ELSE <<>>)
    \o GameBlock(gc)
    \o NoteBlock(sender)

\* lines 130-184: system_content
SystemContent(character, character_memories, user_global_memories, gc, sender) ==
    character.system_prompt
    \o (IF character.documents # <<>>
        THEN <<NL, NL, RefDocsHeader, NL>> \o DocsBlock(character.documents, 1) ELSE <<>>)
    \o (IF character_memories # <<>>
        THEN <<NL, NL, RememberHeader, NL>> \o MemoryLines(character_memories, 1) ELSE <<>>)
    \o (IF user_global_memories # <<>>
        THEN <<NL, NL, GeneralFactsHeader, NL>> \o MemoryLines(user_global_memories, 1)
        ELSE <<>>)
    \o GameBlock(gc)
    \o NoteBlock(sender)

\* conversation_service.py lines 92-98: system_content of send_message
SystemContentLegacy(character) ==
    character.system_prompt
    \o (IF character.documents # <<>>
        THEN <<NL, NL, RefDocsHeader, NL>> \o DocsBlockLegacy(character.documents, 1)
        ELSE <<>>)

----------------------------------------------------------------------------
(* The rows of the store that the turns only read                          *)

Characters ==
    [aria |-> [name |-> "Aria", is_active |-> TRUE,
               system_prompt |-> <<"You are Aria.">>,
               documents |-> <<Doc("lore.txt", Body(3))>>,
               voice_id |-> "en_US-lessac-medium",
               llm_provider |-> "openrouter", llm_model |-> "mistral"],
     bram |-> [name |-> "Bram", is_active |-> FALSE,
               system_prompt |-> <<"You are Bram.">>,
               documents |-> <<>>,
               voice_id |-> NONE,
               llm_provider |-> NONE, llm_model |-> NONE]]

\* the ids a request may name: rows, and an id with no row
CharacterIds == {"aria", "bram", "zed"}

Row(id) == IF id \in DOMAIN Characters THEN <<Characters[id]>> ELSE <<>>

\* select(Character).where(id == ..., is_active == True)
ActiveRow(id) == SelectSeq(Row(id), LAMBDA c : c.is_active)

\* what the engine may answer to a search with a limit
Answers(limit) ==
    {EngineFails, EngineOk(Take(<<Mem(<<"likes tea">>, <<>>)>>, limit))}

----------------------------------------------------------------------------
(* services/conversation_service_mem0.py: send_message_with_memory         *)

NoInput == [character_id |-> NONE, user_id |-> <<>>, user_message |-> <<>>,
            game_context |-> EmptyContext, from_character_id |-> NONE]

NoLocals == [conversation |-> 0, character_memories |-> <<>>,
             user_global_memories |-> <<>>, user_id |-> <<>>,
             system_content |-> <<>>, llm_messages |-> <<>>,
             assistant_message |-> <<>>, audio_file |-> <<>>]

\* turn: the number of the turn; log: the steps so far; engine_failed: the
\* scopes whose recall the engine failed; gateway: what the character-scope
\* gateway call gave; commit, tts, remember: how each step ended;
\* recall_user_id: the user_id the recalls were called with
NoObs == [turn |-> 0, log |-> <<>>, engine_failed |-> {}, gateway |-> Returned(<<>>),
          commit |-> "none", tts |-> "none", remember |-> "none",
          recall_user_id |-> <<>>]

NoOutcome == [kind |-> "none", message |-> <<>>, conversation |-> 0,
              audio_file |-> <<>>, error |-> NoError]

NoMem == [state |-> "none", character_id |-> NONE, user_id |-> <<>>]

Raise(err) == [NoOutcome EXCEPT !.kind = "raised", !.error = err]

Log(s, step) == [obs EXCEPT ![s].log = Append(@, step)]

Message(conv, role, content, turn) ==
    [conversation_id |-> conv, role |-> role, content |-> content, turn |-> turn]

\* lines 48-87: the call, and the select of the active character
StartTurn(s, c, f) ==
    /\ pc[s] \in {"idle", "done"}
    /\ turns < MaxTurns
    /\ turns' = turns + 1
    /\ inp' = [inp EXCEPT ![s] = [NoInput EXCEPT !.character_id = c, !.user_id = <<"u1">>,
                                    !.user_message = <<"hello">>, !.from_character_id = f]]
    /\ loc' = [loc EXCEPT ![s] = [NoLocals EXCEPT !.user_id = <<"u1">>]]
    /\ obs' = [obs EXCEPT ![s] = [NoObs EXCEPT !.turn = turns + 1]]
    /\ gen' = [gen EXCEPT ![s] = NoCall]
    /\ mem' = [mem EXCEPT ![s] = NoMem]
    /\ IF ActiveRow(c) = <<>>
       THEN /\ outcome' = [outcome EXCEPT ![s] =
                             Raise([kind |-> "ValueError", text |-> "Character not found"])]
            /\ pc' = [pc EXCEPT ![s] = "done"]
       ELSE /\ outcome' = [outcome EXCEPT ![s] = NoOutcome]
            /\ pc' = [pc EXCEPT ![s] = "get_conversation"]
    /\ UNCHANGED <<settings, initialized, providers, store, cache, asm, tts, made, stt, health, resp, wire, svc_health>>

\* the conversations of the pair that the select of lines 23-32 may give:
\* those with the greatest last_message_at
Latest(c, u) ==
    LET mine == {v \in store.conversations : v.character_id = c /\ v.user_id = u}
    IN  {v \in mine : \A w \in mine : w.last_message_at <= v.last_message_at}

\* get_or_create_conversation, lines 23-35: the select
GetConversation(s) ==
    /\ pc[s] = "get_conversation"
    /\ LET found == Latest(inp[s].character_id, inp[s].user_id)
       IN  IF found = {}
           THEN /\ pc' = [pc EXCEPT ![s] = "create_conversation"]
                /\ loc' = loc
           ELSE \E v \in found :
                  /\ loc' = [loc EXCEPT ![s].conversation = v.id]
                  /\ pc' = [pc EXCEPT ![s] = "recall"]
    /\ UNCHANGED <<settings, initialized, providers, gen, inp, obs, outcome, store,
                   mem, cache, turns, asm, tts, made, stt, health, resp, wire, svc_health>>

\* get_or_create_conversation, lines 36-43: the new row and its commit; a
\* failed commit leaves the function and the turn as an exception
CreateConversation(s) ==
    /\ pc[s] = "create_conversation"
    /\ \/ /\ store' = [store EXCEPT
                !.conversations = @ \cup {[id |-> obs[s].turn,
                                           character_id |-> inp[s].character_id,
                                           user_id |-> inp[s].user_id,
                                           last_message_at |-> store.clock + 1]},
                !.clock = @ + 1]
          /\ loc' = [loc EXCEPT ![s].conversation = obs[s].turn]
          /\ pc' = [pc EXCEPT ![s] = "recall"]
          /\ outcome' = outcome
       \/ /\ outcome' = [outcome EXCEPT ![s] =
                           Raise([kind |-> "DBError", text |-> "commit"])]
          /\ pc' = [pc EXCEPT ![s] = "done"]
          /\ UNCHANGED <<store, loc>>
    /\ UNCHANGED <<settings, initialized, providers, gen, inp, obs, mem, cache, turns, asm, tts, made, stt, health, resp, wire, svc_health>>

\* lines 92-115: the two recalls, one after the other, when memory is on
Recall(s) ==
    /\ pc[s] = "recall"
    /\ pc' = [pc EXCEPT ![s] = "build"]
    /\ IF settings.MEM0_ENABLE_MEMORY
       THEN \E a1 \in Answers(CHARACTER_MEMORY_LIMIT), a2 \in Answers(GLOBAL_MEMORY_LIMIT) :
              LET g1 == get_character_memories(a1)
                  g2 == get_user_global_memories(a2)
              IN  /\ loc' = [loc EXCEPT
                        ![s].character_memories = IF g1.raised THEN <<>> ELSE g1.value,
                        ![s].user_global_memories =
                            IF g1.raised \/ g2.raised THEN <<>> ELSE g2.value]
                  /\ obs' = [obs EXCEPT
                        ![s].log = Append(@, "recall"),
                        ![s].gateway = g1,
                        ![s].recall_user_id = loc[s].user_id,
                        ![s].engine_failed =
                            (IF a1.ok THEN {} ELSE {"character"})
                            \cup (IF ~g1.raised /\ ~a2.ok THEN {"global"} ELSE {})]
       ELSE UNCHANGED <<loc, obs>>
    /\ UNCHANGED <<settings, initialized, providers, gen, inp, outcome, store, mem,
                   cache, turns, asm, tts, made, stt, health, resp, wire, svc_health>>

\* a faulty variant: the rows are used as the select gives them, newest first
RecentMessagesNewestFirst(conv) ==
    LET mine == SelectSeq(store.messages, LAMBDA m : m.conversation_id = conv)
    IN  Take(Reverse(mine), RECENT_MESSAGES_LIMIT)

\* lines 118-124: the newest RECENT_MESSAGES_LIMIT messages of the
\* conversation, then reversed; the store keeps a conversation's messages in
\* created_at order
RecentMessages(conv) ==
    LET mine == SelectSeq(store.messages, LAMBDA m : m.conversation_id = conv)
    IN  Reverse(Take(Reverse(mine), RECENT_MESSAGES_LIMIT))

LLMMessage(role, content) == [role |-> role, content |-> content]

\* a faulty variant: the system message carries the number of the request
BuildContextStamped(s) ==
    /\ pc[s] = "build"
    /\ LET recent == RecentMessages(loc[s].conversation)
           character == ActiveRow(inp[s].character_id)[1]
           content == SystemContent(character, loc[s].character_memories,
                                    loc[s].user_global_memories,
                                    inp[s].game_context, <<>>)
                      \o <<"Request ", ToString(obs[s].turn)>>
       IN  loc' = [loc EXCEPT
              ![s].system_content = content,
              ![s].llm_messages =
                  <<LLMMessage("system", content)>>
                  \o [i \in 1..Len(recent) |-> LLMMessage(recent[i].role, recent[i].content)]
                  \o <<LLMMessage("user", inp[s].user_message)>>]
    /\ obs' = Log(s, "build")
    /\ pc' = [pc EXCEPT ![s] = "generate"]
    /\ UNCHANGED <<settings, initialized, providers, gen, inp, outcome, store, mem,
                   cache, turns, asm, tts, made, stt, health, resp, wire, svc_health>>

\* lines 117-194: the select of the recent messages, the system message, the
\* select of the sending character, and llm_messages
BuildContext(s) ==
    /\ pc[s] = "build"
    /\ LET recent == RecentMessages(loc[s].conversation)
           character == ActiveRow(inp[s].character_id)[1]
           from == inp[s].from_character_id
           sender == IF from = NONE THEN <<>>
                     ELSE IF Row(from) = <<>> THEN <<>> ELSE <<Row(from)[1].name>>
           content == SystemContent(character, loc[s].character_memories,
                                    loc[s].user_global_memories,
                                    inp[s].game_context, sender)
       IN  loc' = [loc EXCEPT
              ![s].system_content = content,
              ![s].user_id = IF sender = <<>> THEN @ ELSE <<"character_", from>>,
              ![s].llm_messages =
                  <<LLMMessage("system", content)>>
                  \o [i \in 1..Len(recent) |-> LLMMessage(recent[i].role, recent[i].content)]
                  \o <<LLMMessage("user", inp[s].user_message)>>]
    /\ obs' = Log(s, "build")
    /\ pc' = [pc EXCEPT ![s] = "generate"]
    /\ UNCHANGED <<settings, initialized, providers, gen, inp, outcome, store, mem,
                   cache, turns, asm, tts, made, stt, health, resp, wire, svc_health>>

\* lines 197-204: the call of llm_manager.generate
Generate(s) ==
    /\ pc[s] = "generate"
    /\ LET character == ActiveRow(inp[s].character_id)[1]
       IN  ManagerGenerate(s, character.llm_provider, character.llm_model)
    /\ obs' = Log(s, "generate")
    /\ pc' = [pc EXCEPT ![s] = "await_generate"]
    /\ UNCHANGED <<settings, inp, loc, outcome, store, mem, cache, turns, asm, tts, made, stt, health, resp, wire, svc_health>>

\* the client answers the call of a turn
TurnClientGenerate(s) ==
    /\ pc[s] = "await_generate"
    /\ ClientGenerate(s)
    /\ UNCHANGED <<settings, pc, inp, loc, obs, outcome, store, mem, cache, turns, asm, tts, made, stt, health, resp, wire, svc_health>>

\* a faulty variant: the user message is saved and committed before the reply is
\* generated, so it stays when generation fails
GenerateFailedAfterSave(s) ==
    /\ pc[s] = "await_generate"
    /\ gen[s].state = "raised"
    /\ outcome' = [outcome EXCEPT ![s] = Raise(gen[s].error)]
    /\ store' = [store EXCEPT !.messages =
                   Append(@, Message(loc[s].conversation, "user", inp[s].user_message,
                                     obs[s].turn))]
    /\ pc' = [pc EXCEPT ![s] = "done"]
    /\ UNCHANGED <<settings, initialized, providers, gen, inp, loc, obs, mem, cache,
                   turns, asm, tts, made, stt, health, resp, wire, svc_health>>

\* lines 198 and 268-270: generate raised; logged and raised again
GenerateFailed(s) ==
    /\ pc[s] = "await_generate"
    /\ gen[s].state = "raised"
    /\ outcome' = [outcome EXCEPT ![s] = Raise(gen[s].error)]
    /\ pc' = [pc EXCEPT ![s] = "done"]
    /\ UNCHANGED <<settings, initialized, providers, gen, inp, loc, obs, store, mem,
                   cache, turns, asm, tts, made, stt, health, resp, wire, svc_health>>

\* a faulty variant: the user message is committed on its own
CommittedUserOnly(s, reply) ==
    [conversations |-> store.conversations,
     messages |-> Append(store.messages,
                         Message(loc[s].conversation, "user", inp[s].user_message,
                                 obs[s].turn)),
     clock |-> store.clock]

\* the store after the commit of line 230: both messages and the timestamp
Committed(s, reply) ==
    [conversations |->
        {IF v.id = loc[s].conversation
         THEN [v EXCEPT !.last_message_at = store.clock + 1] ELSE v
           : v \in store.conversations},
     messages |-> store.messages
        \o <<Message(loc[s].conversation, "user", inp[s].user_message, obs[s].turn),
             Message(loc[s].conversation, "assistant", reply, obs[s].turn)>>,
     clock |-> store.clock + 1]

\* a faulty variant: a failed commit is logged and the turn goes on
CommitSwallowed(s) ==
    /\ pc[s] = "await_generate"
    /\ gen[s].state = "returned"
    /\ loc' = [loc EXCEPT ![s].assistant_message = gen[s].result.content]
    /\ \/ /\ store' = Committed(s, gen[s].result.content)
          /\ obs' = [obs EXCEPT ![s].log = Append(@, "commit"), ![s].commit = "ok"]
       \/ /\ obs' = [obs EXCEPT ![s].log = Append(@, "commit"), ![s].commit = "failed"]
          /\ store' = store
    /\ pc' = [pc EXCEPT ![s] = "tts"]
    /\ UNCHANGED <<settings, initialized, providers, gen, inp, outcome, mem, cache,
                   turns, asm, tts, made, stt, health, resp, wire, svc_health>>

\* a faulty variant: the order of the docstring, audio before the messages are saved
CommitAfterAudio(s) ==
    /\ pc[s] = "await_generate"
    /\ gen[s].state = "returned"
    /\ loc' = [loc EXCEPT ![s].assistant_message = gen[s].result.content]
    /\ pc' = [pc EXCEPT ![s] = "tts"]
    /\ UNCHANGED <<settings, initialized, providers, gen, inp, obs, outcome, store, mem,
                   cache, turns, asm, tts, made, stt, health, resp, wire, svc_health>>

\* lines 206-230 and 268-270: generate returned; the two messages and the
\* timestamp go to the store in one commit, or the commit raises
Commit(s) ==
    /\ pc[s] = "await_generate"
    /\ gen[s].state = "returned"
    /\ loc' = [loc EXCEPT ![s].assistant_message = gen[s].result.content]
    /\ \/ /\ store' = Committed(s, gen[s].result.content)
          /\ obs' = [obs EXCEPT ![s].log = Append(@, "commit"), ![s].commit = "ok"]
          /\ pc' = [pc EXCEPT ![s] = "tts"]
          /\ outcome' = outcome
       \/ /\ obs' = [obs EXCEPT ![s].log = Append(@, "commit"), ![s].commit = "failed"]
          /\ outcome' = [outcome EXCEPT ![s] =
                           Raise([kind |-> "DBError", text |-> "commit"])]
          /\ pc' = [pc EXCEPT ![s] = "done"]
          /\ store' = store
    /\ UNCHANGED <<settings, initialized, providers, gen, inp, mem, cache, turns, asm, tts, made, stt, health, resp, wire, svc_health>>

----------------------------------------------------------------------------
(* services/tts_service.py: TTSService                                     *)

\* no rate, width and channels: the data of an event that carries none
NoFormat == [rate |-> 0, width |-> 0, channels |-> 0]

\* an event of the Wyoming stream: its type, the rate, width and channels in
\* its data, and the audio bytes of a chunk
Event(type, audio) == [type |-> type, audio |-> audio, data |-> NoFormat]
AudioStart == Event("audio-start", <<>>)

\* an audio-start whose data carries the parameters of the audio
AudioStartWith(format) == [AudioStart EXCEPT !.data = format]
AudioStop == Event("audio-stop", <<>>)
AudioChunk(audio) == Event("audio-chunk", audio)

\* read_event raises (a timeout, a connection reset)
ReadRaises == Event("raise", <<>>)

\* what the synthesis service does for one call: how the connection ends,
\* the events it sends before the stream closes, how writing the file ends
Net(connect, events, write) == [connect |-> connect, events |-> events, write |-> write]
NetOk == Net("ok", <<AudioStart, AudioChunk(<<"x">>), AudioStop>>, "ok")
NetRefused == Net("ConnectionRefusedError", <<>>, "ok")

\* the cache directory with no file
EmptyCache == [k \in {} |-> <<>>]

\* not text or not text.strip() (line 62)
Blank(text) == \A i \in DOMAIN text : text[i] = " "

\* voice or "default" (line 67); a voice is a sequence of tokens, and None
\* and "" are both <<>>
VoiceOrDefault(voice) == IF voice = <<>> THEN <<"default">> ELSE voice

\* lines 40-43: f"{voice}:{text}", the text that is hashed into the file name
CacheKey(text, voice) == voice \o <<":">> \o text

\* the path for a hashed text; the hash is taken as a name for its argument
CachePath(key) == <<"/app/", "audio_cache/">> \o key \o <<".wav">>

\* what a call gives: the path or no path, the files afterwards, the
\* connections it tried to open, and whether it raised
Artifact(path, files, attempts) ==
    [path |-> path, files |-> files, attempts |-> attempts, raised |-> FALSE]

RECURSIVE ReadAudioNewestFirst(_, _, _)
\* a faulty variant: each chunk is put in front of the audio read so far
ReadAudioNewestFirst(events, i, audio_data) ==
    IF i > Len(events) THEN [kind |-> "closed", audio_data |-> audio_data]
    ELSE IF events[i].type = "raise" THEN [kind |-> "raised", audio_data |-> audio_data]
    ELSE IF events[i].type = "audio-stop" THEN [kind |-> "stop", audio_data |-> audio_data]
    ELSE IF events[i].type = "audio-chunk"
         THEN ReadAudioNewestFirst(events, i + 1, events[i].audio \o audio_data)
    ELSE ReadAudioNewestFirst(events, i + 1, audio_data)

RECURSIVE ReadAudio(_, _, _)
\* the loop of lines 89-112, from event i on: audio_data when audio-stop
\* comes, or the stream closes first (read_event gives None), or the read
\* raises; audio-start and events of other types add nothing
ReadAudio(events, i, audio_data) ==
    IF i > Len(events) THEN [kind |-> "closed", audio_data |-> audio_data]
    ELSE IF events[i].type = "raise" THEN [kind |-> "raised", audio_data |-> audio_data]
    ELSE IF events[i].type = "audio-stop" THEN [kind |-> "stop", audio_data |-> audio_data]
    ELSE IF events[i].type = "audio-chunk"
         THEN ReadAudio(events, i + 1, audio_data \o events[i].audio)
    ELSE ReadAudio(events, i + 1, audio_data)

\* the attributes of the object read_event gives: the parameters of the
\* audio are entries of event.data, not attributes
EventAttributes == {"type", "data", "payload"}

\* hasattr(event, name), lines 102-106
HasAttr(event, name) == name \in EventAttributes

\* lines 85-87: sample_rate = 16000, sample_width = 2, channels = 1
DefaultFormat == [rate |-> 16000, width |-> 2, channels |-> 1]

RECURSIVE StreamFormat(_, _, _)
\* lines 100-108 of the loop, from event i on: an audio-start sets each
\* parameter that the event has as an attribute
StreamFormat(events, i, format) ==
    IF i > Len(events) \/ events[i].type \in {"raise", "audio-stop"} THEN format
    ELSE IF events[i].type = "audio-start"
         THEN StreamFormat(events, i + 1,
                [rate |-> IF HasAttr(events[i], "rate")
                          THEN events[i].data.rate ELSE format.rate,
                 width |-> IF HasAttr(events[i], "width")
                           THEN events[i].data.width ELSE format.width,
                 channels |-> IF HasAttr(events[i], "channels")
                              THEN events[i].data.channels ELSE format.channels])
    ELSE StreamFormat(events, i + 1, format)

\* lines 119-123: the WAV file written, its header and its frames
Wav(format, frames) ==
    [rate |-> format.rate, width |-> format.width, channels |-> format.channels,
     audio |-> frames]

\* a faulty variant: the cache is never consulted
TTSCachedIgnored(text, voice, use_cache, files) ==
    IF Blank(text) THEN <<Artifact(<<>>, files, 0)>> ELSE <<>>

\* lines 62-70, before any connection: no artifact for a blank text, the
\* cached path on a hit with use_cache, and <<>> when the service is needed
TTSCached(text, voice, use_cache, files) ==
    LET key == CacheKey(text, VoiceOrDefault(voice))
    IN  IF Blank(text) THEN <<Artifact(<<>>, files, 0)>>
        ELSE IF use_cache /\ key \in DOMAIN files
             THEN <<Artifact(CachePath(key), files, 0)>>
        ELSE <<>>

\* a faulty variant: an empty chunk sequence is written as an empty file
TTSStreamEmptySuccess(key, files, net) ==
    LET r == ReadAudio(net.events, 1, <<>>)
    IN  IF net.connect = "ok" /\ r.kind = "stop" /\ net.write = "ok"
        THEN Artifact(CachePath(key),
                      (key :> Wav(StreamFormat(net.events, 1, DefaultFormat),
                                  r.audio_data)) @@ files, 1)
        ELSE Artifact(<<>>, files, 1)

\* a faulty variant: the file is opened before the stream is read, so every
\* failure after the connection leaves a file with no audio
TTSStreamOpensFirst(key, files, net) ==
    LET r == ReadAudio(net.events, 1, <<>>)
    IN  IF net.connect # "ok" THEN Artifact(<<>>, files, 1)
        ELSE IF r.kind = "stop" /\ r.audio_data # <<>> /\ net.write = "ok"
             THEN Artifact(CachePath(key),
                           (key :> Wav(StreamFormat(net.events, 1, DefaultFormat),
                                       r.audio_data)) @@ files, 1)
        ELSE Artifact(<<>>, (key :> Wav(NoFormat, <<>>)) @@ files, 1)

\* a faulty variant: only a refused connection is caught
TTSStreamRaising(key, files, net) ==
    LET r == ReadAudio(net.events, 1, <<>>)
    IN  IF net.connect = "ConnectionRefusedError" THEN Artifact(<<>>, files, 1)
        ELSE IF net.connect # "ok" \/ r.kind = "raised"
             THEN [Artifact(<<>>, files, 1) EXCEPT !.raised = TRUE]
        ELSE IF r.kind = "closed" \/ r.audio_data = <<>> THEN Artifact(<<>>, files, 1)
        ELSE IF net.write = "ok"
             THEN Artifact(CachePath(key),
                           (key :> Wav(StreamFormat(net.events, 1, DefaultFormat),
                                       r.audio_data)) @@ files, 1)
        ELSE [Artifact(<<>>, files, 1) EXCEPT !.raised = TRUE]

\* lines 72-136, the try block: connect, read the stream, write the file.
\* Every exception is caught and gives None; wave.open(..., 'wb') creates or
\* truncates the file, so a write that fails after it leaves a file with no
\* audio ("write_fails"), and an open that fails leaves the files as they
\* were ("open_fails")
TTSStream(key, files, net) ==
    LET r == ReadAudio(net.events, 1, <<>>)
    IN  IF net.connect # "ok" THEN Artifact(<<>>, files, 1)
        ELSE IF r.kind # "stop" THEN Artifact(<<>>, files, 1)
        ELSE IF r.audio_data = <<>> THEN Artifact(<<>>, files, 1)
        ELSE IF net.write = "ok"
             THEN Artifact(CachePath(key),
                           (key :> Wav(StreamFormat(net.events, 1, DefaultFormat),
                                       r.audio_data)) @@ files, 1)
        ELSE IF net.write = "write_fails"
             THEN Artifact(<<>>, (key :> Wav(NoFormat, <<>>)) @@ files, 1)
        ELSE Artifact(<<>>, files, 1)

\* synthesize, lines 62-136, with the service's part as one answer (net)
TTSSynthesize(text, voice, use_cache, files, net) ==
    LET hit == TTSCached(text, voice, use_cache, files)
    IN  IF hit # <<>> THEN hit[1]
        ELSE TTSStream(CacheKey(text, VoiceOrDefault(voice)), files, net)

\* lines 151-155: clear_cache unlinks every file
TTSClearCache(files) == EmptyCache

NoTTSCall == [state |-> "idle", text |-> <<>>, voice |-> <<>>, use_cache |-> FALSE,
              cache_path |-> <<>>, prior |-> {}, created |-> FALSE,
              path |-> <<>>, attempts |-> 0, raised |-> FALSE, net |-> NetOk]

----------------------------------------------------------------------------
(* services/stt_service.py: STTService.transcribe                          *)

Transcript(text) == [type |-> "transcript", text |-> <<text>>]

\* a transcript event whose data has no 'text'
TranscriptNoText == [type |-> "transcript", text |-> <<>>]
ErrorEvent == [type |-> "error", text |-> <<"failed">>]
OtherEvent(type) == [type |-> type, text |-> <<>>]

\* read_event raises
ReadError == OtherEvent("raise")

\* what transcribe gives: None (<<>>) or the text (<<text>>)
NoSTT == [state |-> "idle", parsed |-> TRUE, connect |-> "ok", events |-> <<>>,
          next |-> 1, result |-> <<>>, raised |-> FALSE]

\* a faulty variant: the first event decides, and an event of another type is
\* an error
SttEventStrict(event) ==
    IF event.type = "transcript"
    THEN [done |-> TRUE, raised |-> FALSE,
          result |-> IF event.text = <<>> THEN <<"">> ELSE event.text]
    ELSE [done |-> TRUE, raised |-> event.type = "raise", result |-> <<>>]

\* lines 85-104, one event read: a transcript ends the wait with
\* event.data.get("text", ""), an error event and a raising read end it with
\* None, an event of any other type is skipped
SttEvent(event) ==
    IF event.type = "transcript"
    THEN [done |-> TRUE, raised |-> FALSE,
          result |-> IF event.text = <<>> THEN <<"">> ELSE event.text]
    ELSE IF event.type \in {"error", "raise"}
    THEN [done |-> TRUE, raised |-> FALSE, result |-> <<>>]
    ELSE [done |-> FALSE, raised |-> FALSE, result |-> <<>>]

\* lines 41-81: parse the audio, connect, send the request and the audio; a
\* failure of any of them gives None before any event is read
SttSend ==
    /\ stt.state = "idle"
    /\ stt' = IF stt.parsed /\ stt.connect = "ok"
              THEN [stt EXCEPT !.state = "waiting"]
              ELSE [stt EXCEPT !.state = "returned"]
    /\ UNCHANGED <<settings, initialized, providers, gen, pc, inp, loc, obs, outcome,
                   store, mem, cache, turns, asm, tts, made, health, resp, wire, svc_health>>

\* lines 84-100, one pass of the loop: read_event gives the next event, or
\* None when the stream has closed
SttRead ==
    /\ stt.state = "waiting"
    /\ IF stt.next > Len(stt.events)
       THEN stt' = [stt EXCEPT !.state = "returned"]
       ELSE LET r == SttEvent(stt.events[stt.next])
            IN  stt' = [stt EXCEPT !.next = @ + 1,
                                   !.state = IF r.raised THEN "raised"
                                             ELSE IF r.done THEN "returned" ELSE @,
                                   !.result = r.result]
    /\ UNCHANGED <<settings, initialized, providers, gen, pc, inp, loc, obs, outcome,
                   store, mem, cache, turns, asm, tts, made, health, resp, wire, svc_health>>

\* lines 84-85 with a peer that keeps the stream open and sends nothing more:
\* 'await client.read_event()' has no timeout, and transcribe stays in it
SttAwait ==
    /\ stt.state = "waiting"
    /\ stt.next > Len(stt.events)
    /\ stt' = [stt EXCEPT !.state = "reading"]
    /\ UNCHANGED <<settings, initialized, providers, gen, pc, inp, loc, obs, outcome,
                   store, mem, cache, turns, asm, tts, made, health, resp, wire, svc_health>>

----------------------------------------------------------------------------
(* providers: the LLMResponse a client builds from a successful answer       *)

\* a dict of the answer with no key
EmptyDict == [k \in {} |-> 0]

\* dict.get(key, default)
Get(dict, key, default) == IF key \in DOMAIN dict THEN dict[key] ELSE default

\* a JSON value that is an integer; a negative number stands for one that is
\* not (an object of details, a fraction, null)
IsInt(v) == v >= 0

\* ollama_provider.py lines 44-48: the usage dict built from the two counts
OllamaUsage(data) ==
    <<[prompt_tokens |-> Get(data, "prompt_eval_count", 0),
       completion_tokens |-> Get(data, "eval_count", 0),
       total_tokens |-> Get(data, "prompt_eval_count", 0) + Get(data, "eval_count", 0)]>>

\* openrouter_provider.py line 59: usage=data.get("usage"), None when absent
OpenRouterUsage(data) == IF "usage" \in DOMAIN data THEN <<data.usage>> ELSE <<>>

\* base.py lines 14-21: LLMResponse(usage: Optional[Dict[str, int]]); the
\* constructor raises a ValidationError for a value that is no integer
LLMResponse(client, data, usage) ==
    IF usage # <<>> /\ \E k \in DOMAIN usage[1] : ~IsInt(usage[1][k])
    THEN [state |-> "raised", client |-> client, data |-> data, usage |-> <<>>]
    ELSE [state |-> "returned", client |-> client, data |-> data, usage |-> usage]

NoResp == [state |-> "none", client |-> NONE, data |-> EmptyDict, usage |-> <<>>]

\* <Provider>.generate after a successful answer of the backend:
\* ollama_provider.py lines 40-53, openrouter_provider.py lines 53-64
ClientResponse(client, data) ==
    /\ resp.state = "none"
    /\ resp' = LLMResponse(client, data,
                           IF client = "ollama" THEN OllamaUsage(data)
                           ELSE OpenRouterUsage(data))
    /\ UNCHANGED <<settings, initialized, providers, gen, pc, inp, loc, obs, outcome,
                   store, mem, cache, turns, asm, tts, made, stt, health, wire,
                   svc_health>>

----------------------------------------------------------------------------
(* services/tts_service.py and services/stt_service.py: health_check        *)

\* the two halves of the voice pipeline
Halves == {"tts", "stt"}

\* a health check: how the connection went, the events it has written, what
\* its read gave, and the value it returned (<<>> while it runs); count is
\* the number of checks started
NoProbe == [state |-> "none", connect |-> NONE, sent |-> <<>>, reply |-> NONE,
            healthy |-> <<>>, raised |-> FALSE, count |-> 0]

\* 'return True' or 'return False'
HealthReturn(p, healthy) == [p EXCEPT !.state = "returned", !.healthy = <<healthy>>]

MaxProbes == 2

\* how a connection may go
Connects == {"ok", "ConnectionRefusedError", "TimeoutError"}

\* what the read of the reply may give: an info event, an event of another
\* type, None when the stream has closed, the timeout, or an error
Replies == {"info", "error", "closed", "TimeoutError", "ConnectionResetError"}

\* one more check of half h starts
NewProbe(h) == [NoProbe EXCEPT !.count = svc_health[h].count + 1]

\* tts_service.py lines 138-149, the whole check: True as soon as the
\* connection is open, within 5 s; False for any exception, the missing
\* asyncio.timeout of a Python before 3.11 included
TtsHealthCheck(has_timeout, connect) ==
    /\ svc_health.tts.state \in {"none", "returned"}
    /\ svc_health.tts.count < MaxProbes
    /\ svc_health' =
         [svc_health EXCEPT !.tts =
            IF ~has_timeout THEN HealthReturn(NewProbe("tts"), FALSE)
            ELSE HealthReturn([NewProbe("tts") EXCEPT !.connect = connect],
                              connect = "ok")]
    /\ UNCHANGED <<settings, initialized, providers, gen, pc, inp, loc, obs, outcome,
                   store, mem, cache, turns, asm, tts, made, stt, health, resp, wire>>

\* stt_service.py lines 190-192: the connection; an exception gives False
SttHealthConnect(connect) ==
    /\ svc_health.stt.state \in {"none", "returned"}
    /\ svc_health.stt.count < MaxProbes
    /\ svc_health' =
         [svc_health EXCEPT !.stt =
            IF connect = "ok"
            THEN [NewProbe("stt") EXCEPT !.state = "connected", !.connect = connect]
            ELSE HealthReturn([NewProbe("stt") EXCEPT !.connect = connect], FALSE)]
    /\ UNCHANGED <<settings, initialized, providers, gen, pc, inp, loc, obs, outcome,
                   store, mem, cache, turns, asm, tts, made, stt, health, resp, wire>>

\* stt_service.py lines 194-195: the describe event is written; a write that
\* raises gives False
SttHealthDescribe(written) ==
    /\ svc_health.stt.state = "connected"
    /\ svc_health' =
         [svc_health EXCEPT !.stt =
            IF written THEN [@ EXCEPT !.state = "described", !.sent = <<"describe">>]
            ELSE HealthReturn(@, FALSE)]
    /\ UNCHANGED <<settings, initialized, providers, gen, pc, inp, loc, obs, outcome,
                   store, mem, cache, turns, asm, tts, made, stt, health, resp, wire>>

\* stt_service.py lines 198-208: the read of the reply, within 5 s; True for
\* an info event, False for any other event, None or an exception
SttHealthRead(reply) ==
    /\ svc_health.stt.state = "described"
    /\ svc_health' =
         [svc_health EXCEPT !.stt = HealthReturn([@ EXCEPT !.reply = reply],
                                                 reply = "info")]
    /\ UNCHANGED <<settings, initialized, providers, gen, pc, inp, loc, obs, outcome,
                   store, mem, cache, turns, asm, tts, made, stt, health, resp, wire>>

----------------------------------------------------------------------------
(* services/stt_service.py: the audio that transcribe parses and streams     *)

\* line 68: chunk_size = 1024
chunk_size == 1024

\* the sample bytes of a recording of n bytes
Samples(n) == [i \in 1..n |-> i % 251]

\* the bytes ffmpeg gives for -ar 16000 -ac 1 -sample_fmt s16 (lines 145-154):
\* as many frames per second as 16000 is of the native rate, each of 2 bytes
Converted(a) ==
    LET frames == a.frames \div (a.width * a.channels)
    IN  ((frames * 16000) \div a.rate) * 2

\* the format of lines 148-150
FfmpegFormat == [rate |-> 16000, width |-> 2, channels |-> 1]

\* a faulty variant: every input goes through ffmpeg
ParseAudioInfoConvertAll(a) ==
    IF a.ffmpeg_ok /\ a.reparse_ok
    THEN <<[rate |-> FfmpegFormat.rate, width |-> FfmpegFormat.width,
            channels |-> FfmpegFormat.channels, audio |-> Samples(Converted(a))]>>
    ELSE <<>>

\* the audio ffmpeg wrote, as the second parse reads it (lines 161-172)
ConvertedInfo(a) ==
    <<[rate |-> FfmpegFormat.rate, width |-> FfmpegFormat.width,
       channels |-> FfmpegFormat.channels, audio |-> Samples(Converted(a))]>>

\* a faulty variant: ffmpeg runs on every input, also after a parse that
\* succeeded
ParseAudioConvertAlways(a) ==
    IF a.ffmpeg_ok /\ a.reparse_ok
    THEN [steps |-> <<"parse", "convert", "parse">>, info |-> ConvertedInfo(a)]
    ELSE [steps |-> <<"parse", "convert">>, info |-> <<>>]

\* _parse_audio_info, lines 114-181, with the steps it takes: the parse of
\* the bytes as they are (the RIFF test and wave.open, lines 116-131), then
\* ffmpeg (lines 145-154) and the parse of what it wrote (lines 157-172);
\* None when any of the two raises (lines 179-181)
ParseAudio(a) ==
    IF a.riff /\ a.wave_ok
    THEN [steps |-> <<"parse">>,
          info |-> <<[rate |-> a.rate, width |-> a.width, channels |-> a.channels,
                      audio |-> Samples(a.frames)]>>]
    ELSE IF ~a.ffmpeg_ok
    THEN [steps |-> <<"parse", "convert">>, info |-> <<>>]
    ELSE IF ~a.reparse_ok
    THEN [steps |-> <<"parse", "convert", "parse">>, info |-> <<>>]
    ELSE [steps |-> <<"parse", "convert", "parse">>, info |-> ConvertedInfo(a)]

\* what _parse_audio_info returns: a RIFF file that wave can read keeps its
\* own parameters and frames; anything else goes through ffmpeg; None when
\* that fails too
ParseAudioInfo(a) == ParseAudio(a).info

\* an event written to the transcriber
WireEvent(type, info, audio) ==
    [type |-> type, rate |-> info.rate, width |-> info.width,
     channels |-> info.channels, audio |-> audio]

RECURSIVE AudioChunksDropTail(_, _)
\* a faulty variant: only whole chunks are sent
AudioChunksDropTail(info, i) ==
    IF i + chunk_size > Len(info.audio) THEN <<>>
    ELSE <<WireEvent("audio-chunk", info, SubSeq(info.audio, i + 1, i + chunk_size))>>
         \o AudioChunksDropTail(info, i + chunk_size)

RECURSIVE AudioChunks(_, _)
\* lines 67-77: for i in range(0, len(audio_bytes), chunk_size), the chunk
\* audio_bytes[i:i + chunk_size]
AudioChunks(info, i) ==
    IF i >= Len(info.audio) THEN <<>>
    ELSE <<WireEvent("audio-chunk", info,
                     SubSeq(info.audio, i + 1, Min(i + chunk_size, Len(info.audio))))>>
         \o AudioChunks(info, i + chunk_size)

\* lines 56-81: the events transcribe writes, in order
Writes(info) ==
    <<WireEvent("transcribe", NoFormat, <<>>), WireEvent("audio-start", info, <<>>)>>
    \o AudioChunks(info, 0)
    \o <<WireEvent("audio-stop", NoFormat, <<>>)>>

NoAudio == [riff |-> FALSE, wave_ok |-> FALSE, ffmpeg_ok |-> FALSE,
            reparse_ok |-> FALSE,
            rate |-> 16000, width |-> 2, channels |-> 1, frames |-> 0]

\* steps are the steps of the parse, connects the connections transcribe
\* tried to open
NoWire == [state |-> "idle", audio |-> NoAudio, steps |-> <<>>, info |-> <<>>,
           connects |-> 0, sent |-> <<>>, reads |-> 0, result |-> <<>>]

\* lines 41-54: the audio is parsed and the connection opened; None when
\* either fails
WireParse(a) ==
    /\ wire.state = "idle"
    /\ LET info == ParseAudioInfo(a)
           parsed == [NoWire EXCEPT !.audio = a, !.steps = ParseAudio(a).steps,
                                    !.info = info]
       IN  \/ wire' = IF info = <<>> THEN [parsed EXCEPT !.state = "returned"]
                      ELSE [parsed EXCEPT !.state = "writing", !.connects = 1]
           \/ info # <<>> /\ wire' = [parsed EXCEPT !.state = "returned",
                                                     !.connects = 1]
    /\ UNCHANGED <<settings, initialized, providers, gen, pc, inp, loc, obs, outcome,
                   store, mem, cache, turns, asm, tts, made, stt, health, resp, svc_health>>

\* lines 56-81, one write_event: the next event goes out, or the write raises
\* and transcribe returns None
WireWrite ==
    /\ wire.state = "writing"
    /\ LET all == Writes(wire.info[1])
           n == Len(wire.sent) + 1
       IN  \/ wire' = [wire EXCEPT !.sent = Append(@, all[n]),
                                   !.state = IF n = Len(all) THEN "reading" ELSE @]
           \/ wire' = [wire EXCEPT !.state = "returned"]
    /\ UNCHANGED <<settings, initialized, providers, gen, pc, inp, loc, obs, outcome,
                   store, mem, cache, turns, asm, tts, made, stt, health, resp, svc_health>>

\* lines 84-100: the wait for the result
WireRead(event) ==
    /\ wire.state = "reading"
    /\ LET r == SttEvent(event)
       IN  wire' = [wire EXCEPT !.reads = 1,
                                !.state = IF r.done THEN "returned" ELSE @,
                                !.result = r.result]
    /\ UNCHANGED <<settings, initialized, providers, gen, pc, inp, loc, obs, outcome,
                   store, mem, cache, turns, asm, tts, made, stt, health, resp, svc_health>>

----------------------------------------------------------------------------
(* send_message_with_memory: after the commit                              *)

\* audio_path.replace('/app/', '')
RelativePath(path) == SelectSeq(path, LAMBDA t : t # "/app/")

\* lines 232-249: the audio of the reply, when TTS is on; no path is no
\* audio, and an exception is logged
Synthesize(s) ==
    /\ pc[s] = "tts"
    /\ pc' = [pc EXCEPT ![s] = "remember"]
    /\ IF settings.TTS_ENABLED
       THEN \E net \in {NetOk, NetRefused} :
              LET character == ActiveRow(inp[s].character_id)[1]
                  voice == IF Falsy(character.voice_id) THEN <<>>
                           ELSE <<character.voice_id>>
                  r == TTSSynthesize(loc[s].assistant_message, voice, TRUE, cache, net)
              IN  /\ cache' = r.files
                  /\ loc' = [loc EXCEPT ![s].audio_file = RelativePath(r.path)]
                  /\ obs' = [obs EXCEPT ![s].log = Append(@, "synthesize"),
                                        ![s].tts = IF r.path = <<>> THEN "failed" ELSE "ok"]
       ELSE UNCHANGED <<cache, loc, obs>>
    /\ UNCHANGED <<settings, initialized, providers, gen, inp, outcome, store, mem,
                   turns, asm, tts, made, stt, health, resp, wire, svc_health>>

\* lines 251-260 and 292-307: the call of the engine's add begins; it is a
\* plain call, so the turn waits in it
Remember(s) ==
    /\ pc[s] = "remember"
    /\ settings.MEM0_ENABLE_MEMORY
    /\ mem' = [mem EXCEPT ![s] = [state |-> "adding",
                                  character_id |-> inp[s].character_id,
                                  user_id |-> loc[s].user_id]]
    /\ obs' = Log(s, "remember")
    /\ pc' = [pc EXCEPT ![s] = "remembering"]
    /\ UNCHANGED <<settings, initialized, providers, gen, inp, loc, outcome, store,
                   cache, turns, asm, tts, made, stt, health, resp, wire, svc_health>>

\* line 266: return assistant_message, conversation, audio_file
Reply(s) == [NoOutcome EXCEPT !.kind = "reply", !.message = loc[s].assistant_message,
                              !.conversation = loc[s].conversation,
                              !.audio_file = loc[s].audio_file]

\* a faulty variant: a failure of the engine's add reaches the caller of the turn
FinishTurnRaising(s) ==
    /\ \/ /\ pc[s] = "remember"
          /\ ~settings.MEM0_ENABLE_MEMORY
          /\ outcome' = [outcome EXCEPT ![s] = Reply(s)]
          /\ UNCHANGED <<mem, obs>>
       \/ /\ pc[s] = "remembering"
          /\ \E a \in {EngineFails, EngineOk(<<>>)} :
               /\ mem' = [mem EXCEPT ![s].state = "returned"]
               /\ obs' = [obs EXCEPT ![s].remember = IF a.ok THEN "ok" ELSE "failed"]
               /\ outcome' = [outcome EXCEPT ![s] =
                     IF a.ok THEN Reply(s)
                     ELSE Raise([kind |-> "EngineError", text |-> "add"])]
    /\ pc' = [pc EXCEPT ![s] = "done"]
    /\ UNCHANGED <<settings, initialized, providers, gen, inp, loc, store, cache,
                   turns, asm, tts, made, stt, health, resp, wire, svc_health>>

\* lines 261-266: the engine's add is over (add_character_memory gives its
\* records, or [] when the engine raised), or memory is off; the turn returns
FinishTurn(s) ==
    /\ \/ /\ pc[s] = "remember"
          /\ ~settings.MEM0_ENABLE_MEMORY
          /\ UNCHANGED <<mem, obs>>
       \/ /\ pc[s] = "remembering"
          /\ \E a \in {EngineFails, EngineOk(<<>>)} :
               LET r == add_character_memory(a)
               IN  /\ mem' = [mem EXCEPT ![s].state = "returned"]
                   /\ obs' = [obs EXCEPT ![s].remember = IF a.ok THEN "ok" ELSE "failed"]
    /\ outcome' = [outcome EXCEPT ![s] = Reply(s)]
    /\ pc' = [pc EXCEPT ![s] = "done"]
    /\ UNCHANGED <<settings, initialized, providers, gen, inp, loc, store, cache,
                   turns, asm, tts, made, stt, health, resp, wire, svc_health>>

\* routers/chat.py lines 199-207: the status of the send endpoint for what
\* the turn gave: a ValueError is a 404, any other exception a 500
SendMessageStatus(o) ==
    IF o.kind = "reply" THEN 200
    ELSE IF o.error.kind = "ValueError" THEN 404
    ELSE 500

----------------------------------------------------------------------------
(* The turns                                                               *)

Settings ==
    [OLLAMA_BASE_URL : BOOLEAN, OPENROUTER_API_KEY : BOOLEAN,
     DEFAULT_LLM_PROVIDER : DefaultProviders,
     MEM0_ENABLE_MEMORY : BOOLEAN, TTS_ENABLED : BOOLEAN]

NoInputs == [documents |-> <<>>, character_memories |-> <<>>,
             user_global_memories |-> <<>>, game_context |-> EmptyContext,
             sender |-> <<>>]

\* no assembly yet: the inputs, and no system message
NoAssembly(in) == [kind |-> "none", in |-> in, content |-> <<>>]

\* the settings of the turns: the default backend, present or not, and the
\* two switches
TurnSettings ==
    {st \in Settings : ~st.OPENROUTER_API_KEY /\ st.DEFAULT_LLM_PROVIDER = "ollama"}

\* the services after construction: nothing called yet
StartServices ==
    /\ initialized = FALSE
    /\ providers = <<>>
    /\ gen = [s \in Sessions |-> NoCall]
    /\ outcome = [s \in Sessions |-> NoOutcome]
    /\ mem = [s \in Sessions |-> NoMem]
    /\ cache = EmptyCache
    /\ turns = 0
    /\ tts = [s \in Sessions |-> NoTTSCall]
    /\ made = {}
    /\ health = NoHealth
    /\ resp = NoResp
    /\ wire = NoWire
    /\ svc_health = [h \in Halves |-> NoProbe]

Start ==
    /\ StartServices
    /\ pc = [s \in Sessions |-> "idle"]
    /\ inp = [s \in Sessions |-> NoInput]
    /\ loc = [s \in Sessions |-> NoLocals]
    /\ obs = [s \in Sessions |-> NoObs]
    /\ store = [conversations |-> {}, messages |-> <<>>, clock |-> 0]

Init == settings \in TurnSettings /\ Start /\ asm = NoAssembly(NoInputs) /\ stt = NoSTT

Next ==
    \E s \in Sessions :
        \/ \E c \in CharacterIds : StartTurn(s, c, NONE)
        \/ GetConversation(s)
        \/ CreateConversation(s)
        \/ Recall(s)
        \/ BuildContext(s)
        \/ Generate(s)
        \/ TurnClientGenerate(s)
        \/ GenerateFailed(s)
        \/ Commit(s)
        \/ Synthesize(s)
        \/ Remember(s)
        \/ FinishTurn(s)

Spec == Init /\ [][Next]_vars

----------------------------------------------------------------------------
(* The turns of one caller whose sender is another character:              *)
(* from_character_id is not set, names a row, or names no row              *)

Senders == {NONE, "bram", "zed"}

InitSender ==
    /\ settings = [OLLAMA_BASE_URL |-> TRUE, OPENROUTER_API_KEY |-> FALSE,
                   DEFAULT_LLM_PROVIDER |-> "ollama",
                   MEM0_ENABLE_MEMORY |-> TRUE, TTS_ENABLED |-> TRUE]
    /\ Start
    /\ asm = NoAssembly(NoInputs)
    /\ stt = NoSTT

\* the turns of one caller, one after the other
NextSender ==
    \E s \in {CHOOSE c \in Sessions : TRUE} :
        \/ \E f \in Senders : StartTurn(s, "aria", f)
        \/ GetConversation(s)
        \/ CreateConversation(s)
        \/ Recall(s)
        \/ BuildContext(s)
        \/ Generate(s)
        \/ TurnClientGenerate(s)
        \/ GenerateFailed(s)
        \/ Commit(s)
        \/ Synthesize(s)
        \/ Remember(s)
        \/ FinishTurn(s)

SpecSender == InitSender /\ [][NextSender]_vars

----------------------------------------------------------------------------
(* Calls of llm_manager.generate from outside a turn, with any provider    *)
(* and model (services/character_service.py line 63)                       *)

DirectGenerate(s, provider, model) ==
    /\ pc[s] = "idle"
    /\ gen[s].state # "inflight"
    /\ ManagerGenerate(s, provider, model)
    /\ UNCHANGED <<settings, pc, inp, loc, obs, outcome, store, mem, cache, turns, asm, tts, made, stt, health, resp, wire, svc_health>>

DirectClientGenerate(s) ==
    /\ pc[s] = "idle"
    /\ ClientGenerate(s)
    /\ UNCHANGED <<settings, pc, inp, loc, obs, outcome, store, mem, cache, turns, asm, tts, made, stt, health, resp, wire, svc_health>>

\* a call of llm_manager.health_check (main.py line 96), with what each
\* backend's probe gives
DirectHealthCheck(probes) ==
    /\ ManagerHealthCheck(probes)
    /\ UNCHANGED <<settings, gen, pc, inp, loc, obs, outcome, store, mem, cache, turns,
                   asm, tts, made, stt, resp, wire, svc_health>>

RouterSettings == {st \in Settings : st.MEM0_ENABLE_MEMORY /\ st.TTS_ENABLED}

InitRouter ==
    settings \in RouterSettings /\ Start /\ asm = NoAssembly(NoInputs) /\ stt = NoSTT

NextRouter ==
    \E s \in Sessions :
        \/ \E p \in RequestedProviders, m \in RequestedModels : DirectGenerate(s, p, m)
        \/ DirectClientGenerate(s)

SpecRouter == InitRouter /\ [][NextRouter]_vars

\* main.py line 21: llm_manager.initialize() at start-up
Startup ==
    /\ ~initialized
    /\ initialized' = TRUE
    /\ providers' = ManagerInitialize(settings)
    /\ UNCHANGED <<settings, gen, pc, inp, loc, obs, outcome, store, mem, cache, turns,
                   asm, tts, made, stt, health, resp, wire, svc_health>>

\* the health endpoint, before or after start-up, for every answer of the
\* probes
NextHealth ==
    \/ Startup
    \/ \E probes \in [ClientNames -> Probes] : DirectHealthCheck(probes)

SpecHealth == InitRouter /\ [][NextHealth]_vars

\* the health endpoint step by step: each probe starts and ends
NextFanout ==
    \/ Startup
    \/ \E probes \in [ClientNames -> Probes] : HealthBegin(probes)
    \/ HealthProbeStart
    \/ \E name \in ClientNames : HealthProbeEnd(name)
    \/ HealthReturnResults

SpecFanout == InitRouter /\ [][NextFanout]_vars

----------------------------------------------------------------------------
(* The assembly of a system message alone, for documents of any length     *)

BodyLengths == {0, DOC_CHAR_LIMIT - 1, DOC_CHAR_LIMIT, DOC_CHAR_LIMIT + 1, 5000}

DocPool == {Doc("lore.txt", Body(n)) : n \in BodyLengths}

DocLists == UNION {[1..k -> DocPool] : k \in 0..MaxDocs}

MemoryLists == {<<>>, <<Mem(<<"likes tea">>, <<>>)>>,
                <<Mem(<<>>, <<"has a dog">>), Mem(<<>>, <<>>)>>}

GameContexts ==
    {EmptyContext,
     [EmptyContext EXCEPT !.location = <<"Tavern">>, !.npc_health = <<0>>,
                          !.nearby_npcs = <<<<"Bram", "Cleo">>>>]}

AssemblyInputs ==
    [documents : DocLists, character_memories : MemoryLists,
     user_global_memories : MemoryLists, game_context : GameContexts,
     sender : {<<>>, <<"Bram">>}]

Persona(docs) == [system_prompt |-> <<"You are Aria.">>, documents |-> docs]

\* send_message_with_memory, lines 126-187, on the inputs drawn
Assemble ==
    /\ asm.kind = "none"
    /\ asm' = [asm EXCEPT !.kind = "mem0",
                          !.content = SystemContent(Persona(asm.in.documents),
                                                    asm.in.character_memories,
                                                    asm.in.user_global_memories,
                                                    asm.in.game_context, asm.in.sender)]
    /\ UNCHANGED <<settings, initialized, providers, gen, pc, inp, loc, obs, outcome,
                   store, mem, cache, turns, tts, made, stt, health, resp, wire, svc_health>>

\* conversation_service.send_message, lines 88-100, on the documents drawn
AssembleLegacy ==
    /\ asm.kind = "none"
    /\ asm' = [asm EXCEPT !.kind = "legacy",
                          !.content = SystemContentLegacy(Persona(asm.in.documents))]
    /\ UNCHANGED <<settings, initialized, providers, gen, pc, inp, loc, obs, outcome,
                   store, mem, cache, turns, tts, made, stt, health, resp, wire, svc_health>>

InitAssembly ==
    /\ settings = [OLLAMA_BASE_URL |-> TRUE, OPENROUTER_API_KEY |-> FALSE,
                   DEFAULT_LLM_PROVIDER |-> "ollama",
                   MEM0_ENABLE_MEMORY |-> TRUE, TTS_ENABLED |-> TRUE]
    /\ Start
    /\ stt = NoSTT
    /\ \E in \in AssemblyInputs : asm = NoAssembly(in)

NextAssembly == Assemble \/ AssembleLegacy

SpecAssembly == InitAssembly /\ [][NextAssembly]_vars

----------------------------------------------------------------------------
(* The assembly of a system message for every game context: each field    *)
(* absent, present and empty, or present with a value                      *)

\* the game contexts a client may send; exclude_none drops a field that is
\* null, and keeps an empty text, a 0, an empty list and an empty dict
AllGameContexts ==
    [location : {<<>>, <<"">>, <<"Tavern">>},
     weather : {<<>>, <<"">>, <<"rain">>},
     time_of_day : {<<>>, <<"dusk">>},
     npc_health : {<<>>, <<0>>, <<50>>},
     player_health : {<<>>, <<0>>},
     player_reputation : {<<>>, <<0>>},
     npc_mood : {<<>>, <<"">>, <<"angry">>},
     recent_event : {<<>>, <<"a fight">>},
     nearby_npcs : {<<>>, <<<<>>>>, <<<<"Bram", "Cleo">>>>},
     custom_data : {<<>>, <<<<>>>>, <<<<<<"quest", "open">>>>>>}]

InitGame ==
    /\ settings = [OLLAMA_BASE_URL |-> TRUE, OPENROUTER_API_KEY |-> FALSE,
                   DEFAULT_LLM_PROVIDER |-> "ollama",
                   MEM0_ENABLE_MEMORY |-> TRUE, TTS_ENABLED |-> TRUE]
    /\ Start
    /\ stt = NoSTT
    /\ \E gc \in AllGameContexts :
         asm = NoAssembly([NoInputs EXCEPT !.game_context = gc])

SpecGame == InitGame /\ [][Assemble]_vars

----------------------------------------------------------------------------
(* Calls of tts_service.synthesize and clear_cache, from two callers; a    *)
(* call that needs the service waits for it, and the other caller may run  *)

MaxCalls == 3

\* the (voice, text) pairs of the calls: no voice and the voice "default",
\* two pairs that differ only in where the colon stands, a blank text and
\* an empty one
Requests ==
    {[voice |-> <<>>, text |-> <<"c">>],
     [voice |-> <<"default">>, text |-> <<"c">>],
     [voice |-> <<"a">>, text |-> <<"b", ":", "c">>],
     [voice |-> <<"a", ":", "b">>, text |-> <<"c">>],
     [voice |-> <<"a">>, text |-> <<" ">>],
     [voice |-> <<"a">>, text |-> <<>>]}

\* what the service may do: the audio, another audio in two chunks, a refused
\* connection, a timeout, a stream closed at once, audio-stop before any
\* chunk, a chunk with no bytes, a stream closed before audio-stop, a read
\* that raises, and the two failures of the write
Nets ==
    {NetOk,
     Net("ok", <<AudioStartWith([rate |-> 22050, width |-> 2, channels |-> 1]),
                 AudioChunk(<<"y">>), AudioChunk(<<"z">>), AudioStop>>, "ok"),
     NetRefused,
     Net("TimeoutError", <<>>, "ok"),
     Net("ok", <<>>, "ok"),
     Net("ok", <<AudioStart, AudioStop>>, "ok"),
     Net("ok", <<AudioStart, AudioChunk(<<>>), AudioStop>>, "ok"),
     Net("ok", <<AudioStart, AudioChunk(<<"y">>)>>, "ok"),
     Net("ok", <<AudioChunk(<<"x">>), ReadRaises>>, "ok"),
     Net("ok", <<AudioStart, AudioChunk(<<"x">>), AudioStop>>, "write_fails"),
     Net("ok", <<AudioStart, AudioChunk(<<"x">>), AudioStop>>, "open_fails")}

\* the artifacts returned so far, with one more when the call gave a path
Made(key, path) == IF path = <<>> THEN made ELSE made \cup {[key |-> key, path |-> path]}

\* synthesize, lines 62-70: the call, up to its return or to the connection
TtsCall(s, text, voice, use_cache) ==
    /\ tts[s].state \in {"idle", "returned"}
    /\ turns < MaxCalls
    /\ turns' = turns + 1
    /\ LET key == CacheKey(text, VoiceOrDefault(voice))
           hit == TTSCached(text, voice, use_cache, cache)
           call == [NoTTSCall EXCEPT
                      !.text = text, !.voice = voice, !.use_cache = use_cache,
                      !.cache_path = IF Blank(text) THEN <<>> ELSE CachePath(key),
                      !.prior = {m.path : m \in {n \in made : n.key = key}}]
       IN  IF hit = <<>>
           THEN /\ tts' = [tts EXCEPT ![s] = [call EXCEPT !.state = "connecting"]]
                /\ made' = made
           ELSE /\ tts' = [tts EXCEPT ![s] = [call EXCEPT !.state = "returned",
                                                         !.path = hit[1].path,
                                                         !.attempts = hit[1].attempts]]
                /\ made' = Made(key, hit[1].path)
    /\ UNCHANGED <<settings, initialized, providers, gen, pc, inp, loc, obs, outcome,
                   store, mem, cache, asm, stt, health, resp, wire, svc_health>>

\* synthesize, lines 72-136: the service answers and the call returns
TtsAnswer(s, net) ==
    /\ tts[s].state = "connecting"
    /\ LET key == CacheKey(tts[s].text, VoiceOrDefault(tts[s].voice))
           r == TTSStream(key, cache, net)
       IN  /\ cache' = r.files
           /\ tts' = [tts EXCEPT ![s].state = IF r.raised THEN "raised" ELSE "returned",
                                 ![s].path = r.path,
                                 ![s].attempts = r.attempts,
                                 ![s].raised = r.raised,
                                 ![s].created = key \notin DOMAIN cache
                                                /\ key \in DOMAIN r.files,
                                 ![s].net = net]
           /\ made' = Made(key, r.path)
    /\ UNCHANGED <<settings, initialized, providers, gen, pc, inp, loc, obs, outcome,
                   store, mem, turns, asm, stt, health, resp, wire, svc_health>>

\* synthesize, lines 89-90, with a service that sends a stream with no
\* audio-stop, keeps it open and sends nothing more: 'await
\* client.read_event()' has no timeout, and synthesize stays in it
TtsAwait(s, events) ==
    /\ tts[s].state = "connecting"
    /\ ReadAudio(events, 1, <<>>).kind = "closed"
    /\ tts' = [tts EXCEPT ![s].state = "reading",
                          ![s].attempts = 1,
                          ![s].net = Net("ok", events, "ok")]
    /\ UNCHANGED <<settings, initialized, providers, gen, pc, inp, loc, obs, outcome,
                   store, mem, cache, turns, asm, stt, made, health, resp, wire, svc_health>>

\* clear_cache, lines 151-155
TtsClearCache ==
    /\ cache # EmptyCache
    /\ cache' = TTSClearCache(cache)
    /\ made' = {}
    /\ UNCHANGED <<settings, initialized, providers, gen, pc, inp, loc, obs, outcome,
                   store, mem, turns, asm, tts, stt, health, resp, wire, svc_health>>

InitTTS ==
    /\ settings = [OLLAMA_BASE_URL |-> TRUE, OPENROUTER_API_KEY |-> FALSE,
                   DEFAULT_LLM_PROVIDER |-> "ollama",
                   MEM0_ENABLE_MEMORY |-> TRUE, TTS_ENABLED |-> TRUE]
    /\ Start
    /\ stt = NoSTT
    /\ asm = NoAssembly(NoInputs)

NextTTS ==
    \/ \E s \in Sessions, q \in Requests, use_cache \in BOOLEAN :
         TtsCall(s, q.text, q.voice, use_cache)
    \/ \E s \in Sessions, net \in Nets : TtsAnswer(s, net)
    \/ TtsClearCache

SpecTTS == InitTTS /\ [][NextTTS]_vars

\* the calls for one (voice, text) pair and for a blank text, from the two
\* callers: every call for a text that is not blank has the same key
SameKeyRequests ==
    {[voice |-> <<>>, text |-> <<"c">>],
     [voice |-> <<"default">>, text |-> <<"c">>],
     [voice |-> <<>>, text |-> <<" ">>]}

NextSameKey ==
    \/ \E s \in Sessions, q \in SameKeyRequests, use_cache \in BOOLEAN :
         TtsCall(s, q.text, q.voice, use_cache)
    \/ \E s \in Sessions, net \in Nets : TtsAnswer(s, net)
    \/ TtsClearCache

SpecSameKey == InitTTS /\ [][NextSameKey]_vars

----------------------------------------------------------------------------
(* One call of stt_service.transcribe, for every stream of the service     *)

MaxEvents == 3

SttEvents == {Transcript("hello"), Transcript("bye"), TranscriptNoText, ErrorEvent,
              OtherEvent("info"), ReadError}

SttStreams == UNION {[1..n -> SttEvents] : n \in 0..MaxEvents}

InitSTT ==
    /\ settings = [OLLAMA_BASE_URL |-> TRUE, OPENROUTER_API_KEY |-> FALSE,
                   DEFAULT_LLM_PROVIDER |-> "ollama",
                   MEM0_ENABLE_MEMORY |-> TRUE, TTS_ENABLED |-> TRUE]
    /\ Start
    /\ asm = NoAssembly(NoInputs)
    /\ \E parsed \in BOOLEAN, connect \in {"ok", "ConnectionRefusedError"},
          events \in SttStreams :
         stt = [NoSTT EXCEPT !.parsed = parsed, !.connect = connect, !.events = events]

NextSTT == SttSend \/ SttRead

SpecSTT == InitSTT /\ [][NextSTT]_vars

----------------------------------------------------------------------------
(* synthesize and transcribe against services that may stop sending: every *)
(* step that can be taken is taken in the end                               *)

\* the streams a service sends before an audio-stop that may never come
OpenStreams == {<<>>, <<AudioStart>>, <<AudioStart, AudioChunk(<<"x">>)>>}

\* the events the transcriber sends before it stops sending
QuietStreams == {<<>>, <<OtherEvent("info")>>, <<Transcript("hello")>>, <<ErrorEvent>>}

InitWait ==
    /\ settings = [OLLAMA_BASE_URL |-> TRUE, OPENROUTER_API_KEY |-> FALSE,
                   DEFAULT_LLM_PROVIDER |-> "ollama",
                   MEM0_ENABLE_MEMORY |-> TRUE, TTS_ENABLED |-> TRUE]
    /\ Start
    /\ asm = NoAssembly(NoInputs)
    /\ \E events \in QuietStreams : stt = [NoSTT EXCEPT !.events = events]

NextWait ==
    \/ \E s \in Sessions : TtsCall(s, <<"a">>, <<>>, TRUE)
    \/ \E s \in Sessions, net \in Nets : TtsAnswer(s, net)
    \/ \E s \in Sessions, events \in OpenStreams : TtsAwait(s, events)
    \/ SttSend
    \/ SttRead
    \/ SttAwait

SpecWait == InitWait /\ [][NextWait]_vars /\ WF_vars(NextWait)

----------------------------------------------------------------------------
(* The health checks of the two services, each made up to MaxProbes times  *)

NextProbe ==
    \/ \E has_timeout \in BOOLEAN, connect \in Connects :
         TtsHealthCheck(has_timeout, connect)
    \/ \E connect \in Connects : SttHealthConnect(connect)
    \/ \E written \in BOOLEAN : SttHealthDescribe(written)
    \/ \E reply \in Replies : SttHealthRead(reply)

SpecProbe == InitTTS /\ [][NextProbe]_vars

----------------------------------------------------------------------------
(* The context of a turn alone (send_message_with_memory, lines 117-194),  *)
(* built by two turns over a store with conversations of any length        *)

MaxHistory == 8

\* a store with n committed messages, in created_at order; every p-th one
\* belongs to a second conversation (none when p = 0)
History(n, p) ==
    [i \in 1..n |-> Message(IF p > 0 /\ i % p = 0 THEN 2 ELSE 1,
                            IF i % 2 = 1 THEN "user" ELSE "assistant",
                            <<ToString(i)>>, (i + 1) \div 2)]

Tavern == [EmptyContext EXCEPT !.location = <<"Tavern">>, !.npc_health = <<0>>,
                               !.nearby_npcs = <<<<"Bram", "Cleo">>>>]

\* what a turn has when it builds its context: the message, the game
\* context, the sending character and the memories recalled
ContextInputs ==
    {[user_message |-> <<"hello">>, game_context |-> EmptyContext,
      from_character_id |-> NONE, character_memories |-> <<>>,
      user_global_memories |-> <<>>],
     [user_message |-> <<"hello">>, game_context |-> Tavern,
      from_character_id |-> NONE,
      character_memories |-> <<Mem(<<"likes tea">>, <<>>)>>,
      user_global_memories |-> <<>>],
     [user_message |-> <<"bye">>, game_context |-> EmptyContext,
      from_character_id |-> "bram", character_memories |-> <<>>,
      user_global_memories |-> <<Mem(<<>>, <<"has a dog">>)>>],
     [user_message |-> <<"bye">>, game_context |-> Tavern,
      from_character_id |-> "zed",
      character_memories |-> <<Mem(<<"likes tea">>, <<>>)>>,
      user_global_memories |-> <<Mem(<<>>, <<"has a dog">>)>>]}

InitContext ==
    /\ settings = [OLLAMA_BASE_URL |-> TRUE, OPENROUTER_API_KEY |-> FALSE,
                   DEFAULT_LLM_PROVIDER |-> "ollama",
                   MEM0_ENABLE_MEMORY |-> TRUE, TTS_ENABLED |-> TRUE]
    /\ StartServices
    /\ stt = NoSTT
    /\ asm = NoAssembly(NoInputs)
    /\ \E n \in 0..MaxHistory, p \in {0, 2, 3} :
         store = [conversations |->
                     {[id |-> c, character_id |-> "aria", user_id |-> <<"u1">>,
                       last_message_at |-> n] : c \in {1, 2}},
                  messages |-> History(n, p), clock |-> n]
    /\ \E q \in [Sessions -> ContextInputs], c \in [Sessions -> {1, 2}] :
         /\ inp = [s \in Sessions |->
                     [NoInput EXCEPT !.character_id = "aria", !.user_id = <<"u1">>,
                                     !.user_message = q[s].user_message,
                                     !.game_context = q[s].game_context,
                                     !.from_character_id = q[s].from_character_id]]
         /\ loc = [s \in Sessions |->
                     [NoLocals EXCEPT !.conversation = c[s], !.user_id = <<"u1">>,
                                      !.character_memories = q[s].character_memories,
                                      !.user_global_memories = q[s].user_global_memories]]
    /\ pc = [s \in Sessions |-> "build"]
    /\ obs = [s \in Sessions |->
                [NoObs EXCEPT !.turn = MaxHistory + (IF s = "s1" THEN 1 ELSE 2)]]

NextContext == \E s \in Sessions : BuildContext(s)

SpecContext == InitContext /\ [][NextContext]_vars

----------------------------------------------------------------------------
(* One call of stt_service.transcribe that streams its audio, for          *)
(* recordings of every container, format and length                        *)

MaxChunks == 2

\* lengths in bytes around the chunk boundaries, whole frames of 4 bytes
Sizes == {k * chunk_size + d : k \in 0..MaxChunks, d \in {0, 4}}

\* what the client may send: a WAV file in the service's format or in 44.1 kHz
\* or stereo, a RIFF file that wave cannot read, another container, and
\* bytes that ffmpeg cannot read either
AudioInputs ==
    {a \in [riff : BOOLEAN, wave_ok : BOOLEAN, ffmpeg_ok : BOOLEAN,
            reparse_ok : BOOLEAN,
            rate : {16000, 44100}, width : {2}, channels : {1, 2}, frames : Sizes] :
        (a.wave_ok => a.riff) /\ (a.reparse_ok => a.ffmpeg_ok)}

NextWire ==
    \/ \E a \in AudioInputs : WireParse(a)
    \/ WireWrite
    \/ \E event \in {Transcript("hello"), ErrorEvent, OtherEvent("info")} : WireRead(event)

SpecWire == InitTTS /\ [][NextWire]_vars

----------------------------------------------------------------------------
(* One successful answer of a backend, for every shape of its token counts *)

MaxCount == 2

\* the dicts with some of the keys, each with one of the values
Dicts(keys, values) == UNION {[K -> values] : K \in SUBSET keys}

\* what Ollama answers: each count present or not
OllamaAnswers == Dicts({"prompt_eval_count", "eval_count"}, 0..MaxCount)

\* what OpenRouter answers: no usage, or a usage with some of the counts, a
\* count being an integer or not
OpenRouterAnswers ==
    {EmptyDict}
    \cup {[usage |-> u] :
            u \in Dicts({"prompt_tokens", "completion_tokens", "total_tokens"},
                        (0 - 1)..MaxCount)}

NextUsage ==
    \/ \E data \in OllamaAnswers : ClientResponse("ollama", data)
    \/ \E data \in OpenRouterAnswers : ClientResponse("openrouter", data)

SpecUsage == InitTTS /\ [][NextUsage]_vars

----------------------------------------------------------------------------
(* The claims                                                              *)

\* the store holds the user message and the assistant message of the turn
\* that session s is in, with the texts of that turn
TurnCommitted(s) ==
    /\ \E i \in DOMAIN store.messages :
         store.messages[i] = Message(loc[s].conversation, "user", inp[s].user_message,
                                     obs[s].turn)
    /\ \E i \in DOMAIN store.messages :
         store.messages[i] = Message(loc[s].conversation, "assistant",
                                     gen[s].result.content, obs[s].turn)

\* the store holds no message of the turn that session s is in
NothingCommitted(s) ==
    \A i \in DOMAIN store.messages : store.messages[i].turn # obs[s].turn

\* C1: a reply is returned only after the commit of the turn's two messages
\* has succeeded; when that commit fails the call raises and returns no reply.
C1_CommitBeforeRespond ==
    \A s \in Sessions :
        /\ outcome[s].kind = "reply" =>
              /\ obs[s].commit = "ok"
              /\ TurnCommitted(s)
              /\ outcome[s].message = gen[s].result.content
        /\ obs[s].commit = "failed" =>
              /\ gen[s].state = "returned"
              /\ pc[s] = "done"
              /\ outcome[s].kind = "raised"

\* one turn has returned its reply, another has raised on a failed commit
C1_Witness ==
    \E s, t \in Sessions :
        /\ outcome[s].kind = "reply"
        /\ obs[t].commit = "failed" /\ outcome[t].kind = "raised"

\* C2: when Router.generate fails the turn raises, and neither message of
\* the turn is in the store, then or later.
C2_GenerationFailureCommitsNothing ==
    \A s \in Sessions :
        gen[s].state = "raised" /\ pc[s] # "idle" =>
            /\ NothingCommitted(s)
            /\ outcome[s].kind # "reply"
            /\ pc[s] = "done" => outcome[s].kind = "raised" /\ outcome[s].error = gen[s].error

\* a turn whose client failed has raised, while the store holds another
\* turn's messages
C2_Witness ==
    \E s \in Sessions :
        /\ gen[s].state = "raised" /\ gen[s].calls # <<>>
        /\ pc[s] = "done" /\ outcome[s].kind = "raised"
        /\ store.messages # <<>>

\* the backend the claim names for a request: the requested one when set and
\* configured, the default when none is requested and it is configured, the
\* first configured one otherwise
ClaimedBackend(requested) ==
    IF ~Falsy(requested) /\ requested \in Range(providers) THEN requested
    ELSE IF Falsy(requested) /\ settings.DEFAULT_LLM_PROVIDER \in Range(providers)
         THEN settings.DEFAULT_LLM_PROVIDER
    ELSE providers[1]

\* C3: with at least one backend configured, generate calls the claimed
\* backend, never fails for want of a backend, and a result comes from it.
C3_BackendResolution ==
    \A s \in Sessions :
        gen[s].state # "none" /\ providers # <<>> =>
            /\ gen[s].calls # <<>>
            /\ gen[s].calls[1].client = ClaimedBackend(gen[s].provider)
            /\ gen[s].error # NoProvidersError
            /\ gen[s].state = "returned" =>
                  gen[s].result.provider = ClaimedBackend(gen[s].provider)

\* a request for an absent backend, with the default configured second, got
\* its result from the first configured backend
C3_Witness ==
    \E s \in Sessions :
        /\ providers = <<"ollama", "openrouter">>
        /\ settings.DEFAULT_LLM_PROVIDER = "openrouter"
        /\ gen[s].provider = "vllm"
        /\ gen[s].state = "returned" /\ gen[s].result.provider = "ollama"

\* C4: with no backend configured every generate call fails with the
\* no-backends error and calls no client.
C4_FatalFloor ==
    \A s \in Sessions :
        gen[s].state # "none" /\ providers = <<>> =>
            /\ gen[s].state = "raised"
            /\ gen[s].error = NoProvidersError
            /\ gen[s].calls = <<>>

\* a call that named a backend and a model failed for want of any backend
C4_Witness ==
    \E s \in Sessions :
        /\ initialized /\ providers = <<>>
        /\ gen[s].provider = "ollama" /\ gen[s].model = "mistral"
        /\ gen[s].state = "raised"

\* C5: a generate call calls at most one client, once; a call that got as far
\* as a client called exactly one, also when that client failed.
C5_SingleClientCall ==
    \A s \in Sessions :
        /\ Len(gen[s].calls) <= 1
        /\ gen[s].state # "none" /\ providers # <<>> => Len(gen[s].calls) = 1
        /\ gen[s].state = "raised" /\ gen[s].calls # <<>> =>
              gen[s].error = GenerationError(gen[s].calls[1].client)

\* the selected client failed while another backend was configured
C5_Witness ==
    \E s \in Sessions :
        /\ Len(providers) = 2
        /\ gen[s].state = "raised" /\ gen[s].calls # <<>>

\* C6: after the commit, a failed synthesis or a failed remember does not
\* fail the turn: the caller gets the reply text, without audio when the
\* synthesis failed, and the two messages stay in the store.
C6_LateFailuresSwallowed ==
    \A s \in Sessions :
        obs[s].commit = "ok" =>
            /\ TurnCommitted(s)
            /\ outcome[s].kind # "raised"
            /\ pc[s] = "done" =>
                  /\ outcome[s].kind = "reply"
                  /\ outcome[s].message = gen[s].result.content
                  /\ obs[s].tts = "failed" => outcome[s].audio_file = <<>>

\* a turn whose synthesis failed and whose remember failed has ended
C6_Witness ==
    \E s \in Sessions :
        /\ pc[s] = "done" /\ obs[s].commit = "ok"
        /\ obs[s].tts = "failed" /\ obs[s].remember = "failed"

\* the turn of session s has built its system message
Built(s) == \E i \in DOMAIN obs[s].log : obs[s].log[i] = "build"

\* C7: when the engine fails during the character-scoped recall the gateway
\* returns an empty sequence and does not raise, the system message has no
\* "what you remember" block, and the turn fails only if generation or the
\* commit fails: otherwise it ends with a committed reply.
C7_GracefulMemoryDegradation ==
    \A s \in Sessions :
        "character" \in obs[s].engine_failed =>
            /\ obs[s].gateway = Returned(<<>>)
            /\ loc[s].character_memories = <<>>
            /\ Built(s) => RememberHeader \notin Range(loc[s].system_content)
            /\ outcome[s].kind = "raised" =>
                  gen[s].state = "raised" \/ obs[s].commit = "failed"
            /\ pc[s] = "done" /\ gen[s].state = "returned" /\ obs[s].commit = "ok" =>
                  outcome[s].kind = "reply" /\ TurnCommitted(s)

\* a turn whose character-scoped recall failed has returned its reply, and
\* its system message still carries the block of the other scope
C7_Witness ==
    \E s \in Sessions :
        /\ obs[s].engine_failed = {"character"}
        /\ GeneralFactsHeader \in Range(loc[s].system_content)
        /\ outcome[s].kind = "reply"

\* the steps of a turn, in the order claimed
StepOrder == <<"recall", "build", "generate", "commit", "synthesize", "remember">>

\* the place of a step in StepOrder
Rank(step) ==
    CASE step = "recall" -> 1 [] step = "build" -> 2 [] step = "generate" -> 3
      [] step = "commit" -> 4 [] step = "synthesize" -> 5 [] step = "remember" -> 6

Logged(s, step) == step \in Range(obs[s].log)

C9_ReplyDoesNotWaitForRemember ==
    \A s \in Sessions : mem[s].state = "adding" => outcome[s].kind = "reply"

\* what the code does instead: the reply is returned only once the engine's
\* add has returned or raised
RememberBlocksReply ==
    \A s \in Sessions :
        /\ mem[s].state = "adding" => outcome[s].kind = "none" /\ pc[s] = "remembering"
        /\ outcome[s].kind = "reply" /\ settings.MEM0_ENABLE_MEMORY =>
              mem[s].state = "returned"

\* the places of the document headers in a system message
HeaderPlaces(content) == {i \in DOMAIN content : content[i] = DocHeader}

\* the body inserted for the k-th document: what stands between the line
\* break after the k-th header's file name and the next line break
InsertedBody(content, k) ==
    LET P == HeaderPlaces(content)
        p == CHOOSE i \in P : Cardinality({j \in P : j <= i}) = k
        e == CHOOSE i \in (p + 3)..Len(content) :
                 content[i] = NL /\ \A j \in (p + 3)..(i - 1) : content[j] # NL
    IN  SubSeq(content, p + 3, e - 1)

\* the first min(length, 2000) characters of a body
ClaimedBody(body) ==
    [i \in 1..(IF Len(body) < 2000 THEN Len(body) ELSE 2000) |-> body[i]]

\* every document of the inputs is in the system message, cut as claimed
DocumentsTruncated ==
    /\ Cardinality(HeaderPlaces(asm.content)) = Len(asm.in.documents)
    /\ \A k \in DOMAIN asm.in.documents :
         InsertedBody(asm.content, k) = ClaimedBody(asm.in.documents[k].content)

\* C10: for every document in a system message assembled for a turn, by
\* either conversation service, the inserted body is the first
\* min(length, 2000) characters of the document.
C10_DocumentsTruncated == asm.kind # "none" => DocumentsTruncated

\* what holds of the code: send_message_with_memory cuts every body
Mem0DocumentsTruncated == asm.kind = "mem0" => DocumentsTruncated

\* the messages committed for a conversation, oldest first
CommittedOf(conv) == SelectSeq(store.messages, LAMBDA m : m.conversation_id = conv)

\* the history the claim names: the last min(5, n) committed messages of the
\* conversation, oldest first, as role and content
ClaimedWindow(conv) ==
    LET mine == CommittedOf(conv)
        n == Len(mine)
        k == IF n < 5 THEN n ELSE 5
    IN  [i \in 1..k |-> [role |-> mine[n - k + i].role,
                         content |-> mine[n - k + i].content]]

SameInputs(s, t) ==
    /\ inp[s].character_id = inp[t].character_id
    /\ inp[s].user_message = inp[t].user_message
    /\ inp[s].game_context = inp[t].game_context
    /\ inp[s].from_character_id = inp[t].from_character_id
    /\ loc[s].character_memories = loc[t].character_memories
    /\ loc[s].user_global_memories = loc[t].user_global_memories
    /\ ClaimedWindow(loc[s].conversation) = ClaimedWindow(loc[t].conversation)

C13_CacheIdempotence ==
    \A s \in Sessions :
        /\ tts[s].attempts <= 1
        /\ tts[s].use_cache /\ tts[s].prior # {} =>
              /\ tts[s].state = "returned"
              /\ tts[s].attempts = 0
              /\ tts[s].prior = {tts[s].path}

\* one call made the artifact with one connection, a later call with
\* use_cache got the same path with none
C13_Witness ==
    \E s, t \in Sessions :
        /\ tts[s].state = "returned" /\ tts[s].attempts = 1 /\ tts[s].path # <<>>
        /\ tts[t].state = "returned" /\ tts[t].use_cache /\ tts[t].attempts = 0
        /\ tts[t].prior = {tts[s].path} /\ tts[t].path = tts[s].path

\* the pair a call is keyed by: voice-or-default and text
Pair(call) == <<VoiceOrDefault(call.voice), call.text>>

\* C14: two synthesize calls whose (voice-or-default, text) pairs differ never
\* get the same cache path.
C14_DistinctPairsDistinctPaths ==
    \A s, t \in Sessions :
        /\ tts[s].cache_path # <<>>
        /\ tts[t].cache_path # <<>>
        /\ Pair(tts[s]) # Pair(tts[t])
        => tts[s].cache_path # tts[t].cache_path

\* what holds of the code: the paths differ when no voice holds a colon
ColonFreeVoicesDistinctPaths ==
    \A s, t \in Sessions :
        /\ tts[s].cache_path # <<>>
        /\ tts[t].cache_path # <<>>
        /\ Pair(tts[s]) # Pair(tts[t])
        /\ ":" \notin Range(tts[s].voice) \cup Range(tts[t].voice)
        => tts[s].cache_path # tts[t].cache_path

\* the service has answered the call of s
Answered(s) == tts[s].state \in {"returned", "raised"} /\ tts[s].attempts = 1

\* audio-stop is event j of the stream, and no read before it raised
StopAt(events, j) ==
    /\ events[j].type = "audio-stop"
    /\ \A i \in 1..(j - 1) : events[i].type \notin {"audio-stop", "raise"}

\* the stream delivered audio-stop before any audio byte
StopBeforeAudio(net) ==
    /\ net.connect = "ok"
    /\ \E j \in DOMAIN net.events :
         StopAt(net.events, j) /\ \A i \in 1..(j - 1) : net.events[i].audio = <<>>

\* C15: when audio-stop comes before any audio byte, synthesize returns no
\* artifact and creates no cache file.
C15_EmptyAudioIsFailure ==
    \A s \in Sessions :
        Answered(s) /\ StopBeforeAudio(tts[s].net) =>
            /\ tts[s].state = "returned"
            /\ tts[s].path = <<>>
            /\ ~tts[s].created

\* a call whose stream held only a chunk with no bytes has returned
C15_Witness ==
    \E s \in Sessions :
        /\ Answered(s) /\ StopBeforeAudio(tts[s].net)
        /\ \E i \in DOMAIN tts[s].net.events : tts[s].net.events[i].type = "audio-chunk"
        /\ tts[s].path = <<>>
        /\ CacheKey(tts[s].text, VoiceOrDefault(tts[s].voice)) \notin DOMAIN cache

\* the service failed the call: no connection, no audio-stop, or no file
Failing(net) ==
    \/ net.connect # "ok"
    \/ ~\E j \in DOMAIN net.events : StopAt(net.events, j)
    \/ net.write # "ok"

\* C16: synthesize never raises; a refused connection, a timeout, a stream
\* closed before audio-stop or any other error gives no artifact.
C16_SynthesizeNeverRaises ==
    \A s \in Sessions :
        /\ tts[s].state # "raised"
        /\ ~tts[s].raised
        /\ Answered(s) /\ Failing(tts[s].net) => tts[s].path = <<>>

\* calls have returned without an artifact after a timeout and after a read
\* that raised
C16_Witness ==
    \E s, t \in Sessions :
        /\ tts[s].state = "returned" /\ tts[s].attempts = 1
        /\ tts[s].net.connect = "TimeoutError" /\ tts[s].path = <<>>
        /\ tts[t].state = "returned" /\ tts[t].attempts = 1
        /\ ReadRaises \in Range(tts[t].net.events) /\ tts[t].path = <<>>

\* event j ends the wait: it is the first that is a transcript, an error or a
\* failed read
EndsWait(events, j) ==
    /\ events[j].type \in {"transcript", "error", "raise"}
    /\ \A i \in 1..(j - 1) : events[i].type \notin {"transcript", "error", "raise"}

\* what the claim says transcribe gives for a stream of events
ClaimedTranscript(events) ==
    IF \E j \in DOMAIN events : EndsWait(events, j) /\ events[j].type = "transcript"
    THEN LET j == CHOOSE j \in DOMAIN events : EndsWait(events, j)
         IN  IF events[j].text = <<>> THEN <<"">> ELSE events[j].text
    ELSE <<>>

\* C17: once the audio is sent, transcribe returns the text of the first
\* transcript event, None on the first error event or when the stream closes
\* first, skips events of other types, and never raises.
C17_TranscribeResult ==
    /\ stt.state # "raised"
    /\ ~stt.raised
    /\ stt.state = "returned" =>
         stt.result = IF stt.parsed /\ stt.connect = "ok"
                      THEN ClaimedTranscript(stt.events)
                      ELSE <<>>

\* transcribe skipped an event of another type, returned the text of the
\* first transcript and never read the second
C17_Witness ==
    /\ stt.state = "returned"
    /\ stt.events = <<OtherEvent("info"), Transcript("hello"), Transcript("bye")>>
    /\ stt.next = 3
    /\ stt.result = <<"hello">>

\* the names of the backends the settings configure
ConfiguredNames ==
    {n \in ClientNames : \/ n = "ollama" /\ settings.OLLAMA_BASE_URL
                         \/ n = "openrouter" /\ settings.OPENROUTER_API_KEY}

\* C18: health_check never raises and returns a map whose keys are the
\* configured backend names, true where the probe succeeded, false where it
\* failed.
C18_HealthMap ==
    /\ health.state # "raised"
    /\ health.state = "returned" =>
         /\ DOMAIN health.results = ConfiguredNames
         /\ \A n \in ConfiguredNames : health.results[n] = (health.probes[n] = "ok")

\* with both backends configured the first probe raised inside its client and
\* the second succeeded: the map has both entries
C18_Witness ==
    /\ health.state = "returned"
    /\ health.probes = [ollama |-> "error", openrouter |-> "ok"]
    /\ health.results = [ollama |-> FALSE, openrouter |-> TRUE]

\* the committed messages are whole turns: user then assistant of the same
\* turn and conversation, and no turn has more than these two
WholeTurns ==
    LET m == store.messages
    IN  /\ Len(m) % 2 = 0
        /\ \A i \in DOMAIN m :
             IF i % 2 = 1
             THEN /\ m[i].role = "user"
                  /\ m[i + 1].role = "assistant"
                  /\ m[i + 1].turn = m[i].turn
                  /\ m[i + 1].conversation_id = m[i].conversation_id
             ELSE \A j \in DOMAIN m : j > i => m[j].turn # m[i].turn

\* a step that changes the messages appends the two of one turn and sets the
\* last activity of their conversation, all at once
CommitStep ==
    LET m == store'.messages
        n == Len(m)
    IN  /\ n = Len(store.messages) + 2
        /\ SubSeq(m, 1, n - 2) = store.messages
        /\ m[n - 1].turn = m[n].turn
        /\ \E v \in store'.conversations :
             /\ v.id = m[n].conversation_id
             /\ v.last_message_at = store'.clock
             /\ v \notin store.conversations

\* C19: in every state the committed messages of each conversation are whole
\* turns, a user message if and only if its assistant message, two per turn,
\* appended in one commit with the conversation's last-activity update.
C19_WholeTurns ==
    /\ []WholeTurns
    /\ [][store'.messages # store.messages => CommitStep]_vars

\* one turn is committed with its two messages, and the turn of the other
\* session has failed and left none
C19_Witness ==
    /\ Len(store.messages) = 2
    /\ \E s \in Sessions :
         /\ outcome[s].kind = "raised"
         /\ obs[s].turn > 0
         /\ NothingCommitted(s)

ClaimedFormat(a) ==
    IF a.riff /\ a.wave_ok
    THEN [rate |-> a.rate, width |-> a.width, channels |-> a.channels]
    ELSE [rate |-> 16000, width |-> 2, channels |-> 1]

ClaimedChunks(n) == (n + 1023) \div 1024

\* the events the claim names for the parsed samples
ClaimedWrites(samples) ==
    LET n == Len(samples)
        k == ClaimedChunks(n)
    IN  [i \in 1..(k + 3) |->
           IF i = 1 THEN [type |-> "transcribe", audio |-> <<>>]
           ELSE IF i = 2 THEN [type |-> "audio-start", audio |-> <<>>]
           ELSE IF i = k + 3 THEN [type |-> "audio-stop", audio |-> <<>>]
           ELSE [type |-> "audio-chunk",
                 audio |-> SubSeq(samples, (i - 3) * 1024 + 1, Min((i - 2) * 1024, n))]]

\* what was written, as the claim names it: the type and the bytes
Written == [i \in DOMAIN wire.sent |-> [type |-> wire.sent[i].type,
                                        audio |-> wire.sent[i].audio]]

\* C29: for parsed samples of n bytes transcribe writes one transcribe
\* request, one audio-start, ceil(n/1024) chunks in offset order, all of 1024
\* bytes but the last, then one audio-stop, and reads only after all of them.
C29_WriteSequence ==
    wire.info # <<>> =>
        LET claimed == ClaimedWrites(wire.info[1].audio)
        IN  /\ Len(wire.sent) <= Len(claimed)
            /\ Written = SubSeq(claimed, 1, Len(wire.sent))
            /\ wire.state = "reading" \/ wire.reads > 0 => Len(wire.sent) = Len(claimed)
            /\ \A i \in DOMAIN wire.sent :
                 wire.sent[i].type = "audio-chunk" =>
                    /\ Len(wire.sent[i].audio) \in 1..1024
                    /\ i < Len(claimed) - 1 => Len(wire.sent[i].audio) = 1024

\* samples of two whole chunks and four bytes went out in three chunks, and
\* the result was read after the audio-stop
C29_Witness ==
    /\ wire.info # <<>>
    /\ Len(wire.info[1].audio) = 2 * 1024 + 4
    /\ Len(wire.sent) = 6
    /\ Len(wire.sent[5].audio) = 4
    /\ wire.reads = 1
    /\ wire.state = "returned"

\* the counts of the answer as the claim reports them: 0 for a missing one
ClaimedUsage(r) ==
    IF r.client = "ollama"
    THEN [prompt_tokens |-> Get(r.data, "prompt_eval_count", 0),
          completion_tokens |-> Get(r.data, "eval_count", 0)]
    ELSE LET u == Get(r.data, "usage", EmptyDict)
         IN  [prompt_tokens |-> Get(u, "prompt_tokens", 0),
              completion_tokens |-> Get(u, "completion_tokens", 0)]

\* the result reports every count, a missing one as 0
Normalized(r) ==
    /\ r.state = "returned"
    /\ r.usage # <<>>
    /\ DOMAIN r.usage[1] = {"prompt_tokens", "completion_tokens", "total_tokens"}
    /\ r.usage[1].prompt_tokens = ClaimedUsage(r).prompt_tokens
    /\ r.usage[1].completion_tokens = ClaimedUsage(r).completion_tokens

\* C22: for every client a successful answer that lacks token counts gives a
\* result whose prompt, completion and total counts are reported, as 0 when
\* missing, and the shape of the usage never fails the call.
C22_UsageNormalized ==
    resp.state # "none" =>
        /\ resp.state = "returned"
        /\ \/ Normalized(resp)
           \/ \E k \in DOMAIN Get(resp.data, "usage", EmptyDict) : ~IsInt(resp.data.usage[k])

\* what holds of the code: the Ollama client reports every count
OllamaUsageNormalized ==
    resp.client = "ollama" =>
        /\ Normalized(resp)
        /\ resp.usage[1].total_tokens
             = resp.usage[1].prompt_tokens + resp.usage[1].completion_tokens

\* C23: a client's generate makes one request and no retry, and the error that
\* reaches the caller is a generation-failed error that names the backend.
C23_ErrorNamesBackend ==
    \A s \in Sessions :
        /\ Len(gen[s].calls) <= 1
        /\ gen[s].state = "raised" /\ gen[s].calls # <<>> =>
              gen[s].error = [kind |-> "GenerationFailed",
                              text |-> gen[s].calls[1].client]

\* the turn of s ended without a persona: none, or an inactive one
PersonaMissing(s) == pc[s] = "done" /\ ActiveRow(inp[s].character_id) = <<>>

\* the turn of s ended because its generation step failed
GenerationAborted(s) ==
    pc[s] = "done" /\ outcome[s].kind = "raised" /\ gen[s].state = "raised"

\* C26: the send endpoint answers 404 for a missing or inactive persona and a
\* 5xx for every failure of the generation step, zero backends included.
C26_NotFoundOrServiceError ==
    \A s \in Sessions :
        /\ PersonaMissing(s) => SendMessageStatus(outcome[s]) = 404
        /\ GenerationAborted(s) => SendMessageStatus(outcome[s]) >= 500

\* what holds of the code: 404 for a missing persona, 500 when the backend
\* that was called failed
BackendFailureIsServiceError ==
    \A s \in Sessions :
        /\ PersonaMissing(s) => SendMessageStatus(outcome[s]) = 404
        /\ GenerationAborted(s) /\ gen[s].calls # <<>> =>
              SendMessageStatus(outcome[s]) = 500

\* C27: a turn that aborts because generation failed leaves the store as it
\* was before the turn: no conversation, message or timestamp of that turn.
C27_AbortLeavesStore ==
    \A s \in Sessions :
        GenerationAborted(s) =>
            /\ NothingCommitted(s)
            /\ \A v \in store.conversations : v.id # obs[s].turn

RECURSIVE ChunkPayloads(_)
\* the payloads of the audio-chunk events of a stream, in arrival order
ChunkPayloads(events) ==
    IF events = <<>> THEN <<>>
    ELSE (IF Head(events).type = "audio-chunk" THEN Head(events).audio ELSE <<>>)
         \o ChunkPayloads(Tail(events))

\* the call of s is answered by the service in this step
AnswerStep(s) == tts[s].state = "connecting" /\ tts'[s].state # "connecting"

\* C28: on a successful synthesis the file holds the payloads of the
\* audio-chunk events before audio-stop, in arrival order and nothing else;
\* the step writes that one file only, and no step writes a file unless its
\* stream has delivered audio-stop.
C28_ConcatenatedOnceAfterStop ==
    [][/\ \A s \in Sessions :
            AnswerStep(s) /\ tts'[s].path # <<>> =>
                LET key == CacheKey(tts[s].text, VoiceOrDefault(tts[s].voice))
                    events == tts'[s].net.events
                IN  /\ key \in DOMAIN cache'
                    /\ \E j \in DOMAIN events :
                         /\ StopAt(events, j)
                         /\ cache'[key].audio = ChunkPayloads(SubSeq(events, 1, j - 1))
                    /\ \A k \in DOMAIN cache \ {key} :
                         k \in DOMAIN cache' /\ cache'[k] = cache[k]
       /\ cache' # cache =>
            \/ TtsClearCache
            \/ \E s \in Sessions :
                 /\ AnswerStep(s)
                 /\ \E j \in DOMAIN tts'[s].net.events : StopAt(tts'[s].net.events, j)]_vars

\* a synthesis of two chunks returned its artifact, the two payloads in order
C28_Witness ==
    \E s \in Sessions :
        LET key == CacheKey(tts[s].text, VoiceOrDefault(tts[s].voice))
        IN  /\ tts[s].state = "returned"
            /\ tts[s].attempts = 1
            /\ tts[s].path # <<>>
            /\ Len(tts[s].net.events) = 4
            /\ key \in DOMAIN cache
            /\ cache[key].audio = <<"y", "z">>

\* the parameters carried by the last audio-start of the stream before
\* audio-stop, or 16000 Hz, 2 bytes, 1 channel when none carries any
ClaimedParams(events) ==
    LET starts == {i \in DOMAIN events :
                     /\ events[i].type = "audio-start"
                     /\ events[i].data # NoFormat
                     /\ \A j \in 1..(i - 1) : events[j].type \notin {"audio-stop", "raise"}}
    IN  IF starts = {} THEN [rate |-> 16000, width |-> 2, channels |-> 1]
        ELSE events[CHOOSE i \in starts : \A j \in starts : j <= i].data

\* C30: the artifact is written with the rate, width and channels of the
\* audio-start event when the stream delivers one that carries them, and with
\* 16000 Hz, 2 bytes, 1 channel otherwise.
C30_WrittenWithStreamParams ==
    [][\A s \in Sessions :
         AnswerStep(s) /\ tts'[s].path # <<>> =>
             LET key == CacheKey(tts[s].text, VoiceOrDefault(tts[s].voice))
                 params == ClaimedParams(tts'[s].net.events)
             IN  /\ cache'[key].rate = params.rate
                 /\ cache'[key].width = params.width
                 /\ cache'[key].channels = params.channels]_vars

\* what holds of the code: every artifact with audio in it is written as
\* 16000 Hz, 2 bytes, 1 channel, whatever the audio-start carried
ArtifactsInDefaultFormat ==
    \A k \in DOMAIN cache :
        cache[k].audio # <<>> =>
            /\ cache[k].rate = 16000
            /\ cache[k].width = 2
            /\ cache[k].channels = 1

\* an artifact was written from a stream whose audio-start carried 22050 Hz
StartWithParamsAnswered ==
    \E s \in Sessions :
        /\ tts[s].state = "returned"
        /\ tts[s].attempts = 1
        /\ tts[s].path # <<>>
        /\ ClaimedParams(tts[s].net.events).rate = 22050

\* C24: synthesize and transcribe each return in the end, also when the
\* service has accepted the connection and then neither sends the closing
\* event nor closes the stream.
C24_WaitIsBounded ==
    /\ \A s \in Sessions :
         tts[s].state \in {"connecting", "reading"} ~> tts[s].state = "returned"
    /\ stt.state \in {"waiting", "reading"} ~> stt.state = "returned"

\* what holds of the code: a call that waits for an event of a service that
\* sends nothing more never leaves the wait
SilentWaitNeverEnds ==
    [][/\ \A s \in Sessions : tts[s].state = "reading" => tts'[s].state = "reading"
       /\ stt.state = "reading" => stt'.state = "reading"]_vars

\* what holds of the code: a call whose service closes the stream, or sends
\* the closing event, returns
ClosedStreamReturns ==
    /\ \A s \in Sessions :
         tts[s].state = "connecting" ~> tts[s].state \in {"returned", "reading"}
    /\ stt.state = "waiting" ~> stt.state \in {"returned", "reading"}

\* both calls wait for a service that sends nothing more
BothWaitForever ==
    /\ stt.state = "reading"
    /\ \E s \in Sessions : tts[s].state = "reading" /\ tts[s].net.events # <<>>

\* the check of half h made the describe/info round trip
RoundTrip(h) ==
    /\ svc_health[h].sent = <<"describe">>
    /\ svc_health[h].reply = "info"

\* C25: each of the two health checks sends a describe event and reports
\* healthy only when an info event comes back within the timeout; in every
\* other case it reports unhealthy, and it never raises.
C25_DescribeInfoRoundTrip ==
    \A h \in Halves :
        svc_health[h].state = "returned" =>
            /\ ~svc_health[h].raised
            /\ svc_health[h].healthy = <<RoundTrip(h)>>

\* what holds of the code: the check of the transcriber makes the round trip
SttHealthIsRoundTrip ==
    svc_health.stt.state = "returned" =>
        /\ ~svc_health.stt.raised
        /\ svc_health.stt.healthy = <<RoundTrip("stt")>>

\* what holds of the code: the check of the synthesizer writes no event and
\* reports healthy exactly when the connection opened
TtsHealthIsConnect ==
    svc_health.tts.state = "returned" =>
        /\ ~svc_health.tts.raised
        /\ svc_health.tts.sent = <<>>
        /\ svc_health.tts.healthy = <<svc_health.tts.connect = "ok">>

\* both checks reported healthy, the synthesizer's with no event written
BothReportHealthy ==
    /\ svc_health.tts.healthy = <<TRUE>>
    /\ svc_health.tts.sent = <<>>
    /\ svc_health.stt.healthy = <<TRUE>>
    /\ RoundTrip("stt")

\* C31: transcribe parses the bytes as they are first; it converts them, and
\* parses what the conversion wrote, only when that parse failed; when the
\* conversion or the second parse fails too it returns None and has opened no
\* connection.
C31_ParseThenConvert ==
    wire.state # "idle" =>
        LET a == wire.audio
            direct == a.riff /\ a.wave_ok
        IN  /\ wire.steps # <<>> /\ wire.steps[1] = "parse"
            /\ direct => wire.steps = <<"parse">> /\ wire.info # <<>>
            /\ ~direct => Len(wire.steps) >= 2 /\ wire.steps[2] = "convert"
            /\ Len(wire.steps) = 3 <=> ~direct /\ a.ffmpeg_ok
            /\ Len(wire.steps) = 3 => wire.steps[3] = "parse"
            /\ ~direct /\ a.ffmpeg_ok /\ a.reparse_ok => wire.info # <<>>
            /\ ~direct /\ ~(a.ffmpeg_ok /\ a.reparse_ok) =>
                 /\ wire.state = "returned"
                 /\ wire.result = <<>>
                 /\ wire.connects = 0
                 /\ wire.sent = <<>>

\* the direct parse failed, ffmpeg ran, and the parse of what it wrote failed:
\* transcribe returned None with no connection opened
C31_Witness ==
    /\ wire.state = "returned"
    /\ wire.audio.riff
    /\ wire.steps = <<"parse", "convert", "parse">>
    /\ wire.info = <<>>
    /\ wire.connects = 0

\* the label of the line of each field, in the order of the block; the lines
\* of custom_data are labeled by its keys
LineLabels ==
    <<[field |-> "location", label |-> "Location: "],
      [field |-> "weather", label |-> "Weather: "],
      [field |-> "time_of_day", label |-> "Time: "],
      [field |-> "npc_health", label |-> "Your health: "],
      [field |-> "player_health", label |-> "Player health: "],
      [field |-> "player_reputation", label |-> "Player reputation: "],
      [field |-> "npc_mood", label |-> "Your mood: "],
      [field |-> "recent_event", label |-> "Recent event: "],
      [field |-> "nearby_npcs", label |-> "Nearby NPCs: "],
      [field |-> "custom_data", label |-> "quest"]>>

\* the labels found in a system message, in the order they appear
RenderedLabels(content) ==
    SelectSeq(content, LAMBDA tok : \E i \in DOMAIN LineLabels : LineLabels[i].label = tok)

RECURSIVE LabelsOf(_, _)
\* the labels, in the fixed order from line i on, of the fields in a set
LabelsOf(fields, i) ==
    IF i > Len(LineLabels) THEN <<>>
    ELSE (IF LineLabels[i].field \in fields THEN <<LineLabels[i].label>> ELSE <<>>)
         \o LabelsOf(fields, i + 1)

\* the fields a game context has
Present(gc) == {f \in DOMAIN gc : gc[f] # <<>>}

\* the fields that are numbers
NumberFields == {"npc_health", "player_health", "player_reputation"}

\* the fields a game context has with something in them: any number, a text
\* that is not "", a list or dict that is not empty
Filled(gc) ==
    {f \in Present(gc) :
        \/ f \in NumberFields
        \/ f \in {"nearby_npcs", "custom_data"} /\ gc[f][1] # <<>>
        \/ f \notin NumberFields \cup {"nearby_npcs", "custom_data"} /\ gc[f][1] # ""}

\* C32, as stated: the block has a labeled line for a field exactly when the
\* field is present, a 0 included, in the fixed order of the fields.
C32_LinePerPresentField ==
    asm.kind = "mem0" =>
        RenderedLabels(asm.content) = LabelsOf(Present(asm.in.game_context), 1)

\* C32, amended: the block has a labeled line for a field exactly when the
\* field is present and, for a text, list or dict, not empty; a present
\* number has its line also when it is 0; the lines are in the fixed order
\* of the fields, and the line of a number shows the number.
C32_LinePerFilledField ==
    asm.kind = "mem0" =>
        LET gc == asm.in.game_context
        IN  /\ RenderedLabels(asm.content) = LabelsOf(Filled(gc), 1)
            /\ \A i \in DOMAIN LineLabels :
                 LineLabels[i].field \in NumberFields \cap Present(gc) =>
                     \E k \in DOMAIN asm.content :
                         /\ asm.content[k] = LineLabels[i].label
                         /\ asm.content[k + 1] = ToString(gc[LineLabels[i].field][1])

\* a block was built from a context with a health of 0, an empty location
\* and no weather
C32_Witness ==
    /\ asm.kind = "mem0"
    /\ asm.in.game_context.npc_health = <<0>>
    /\ asm.in.game_context.location = <<"">>
    /\ asm.in.game_context.weather = <<>>
    /\ asm.in.game_context.npc_mood = <<"angry">>
    /\ RenderedLabels(asm.content) = <<"Your health: ", "Your mood: ">>

\* the token each block of a system message begins with, in the order claimed
BlockMarkers ==
    <<"You are Aria.", RefDocsHeader, RememberHeader, GeneralFactsHeader,
      GameStateHeader, "**Note:** This message is from ">>

\* the markers of the blocks a system message must have for its inputs: the
\* identity text always, each other block when its input is not empty
ClaimedMarkers(in) ==
    <<BlockMarkers[1]>>
    \o (IF in.documents # <<>> THEN <<BlockMarkers[2]>> ELSE <<>>)
    \o (IF in.character_memories # <<>> THEN <<BlockMarkers[3]>> ELSE <<>>)
    \o (IF in.user_global_memories # <<>> THEN <<BlockMarkers[4]>> ELSE <<>>)
    \o (IF in.game_context # EmptyContext THEN <<BlockMarkers[5]>> ELSE <<>>)
    \o (IF in.sender # <<>> THEN <<BlockMarkers[6]>> ELSE <<>>)

\* the markers found in a system message, in the order they appear
FoundMarkers(content) ==
    SelectSeq(content, LAMBDA tok : \E i \in DOMAIN BlockMarkers : BlockMarkers[i] = tok)

\* the tokens of the block that begins with a marker, up to the next marker
BlockOf(content, marker) ==
    LET places == {k \in DOMAIN content : content[k] = marker}
        from == CHOOSE k \in places : TRUE
        later == {k \in DOMAIN content :
                    k > from /\ \E i \in DOMAIN BlockMarkers : BlockMarkers[i] = content[k]}
        to == IF later = {} THEN Len(content)
              ELSE (CHOOSE k \in later : \A j \in later : k <= j) - 1
    IN  IF places = {} THEN <<>> ELSE SubSeq(content, from + 1, to)

RECURSIVE BulletTexts(_)
\* the texts of the bulleted lines of a block
BulletTexts(block) ==
    IF Len(block) < 2 THEN <<>>
    ELSE IF Head(block) = Bullet
         THEN <<block[2]>> \o BulletTexts(Tail(Tail(block)))
    ELSE BulletTexts(Tail(block))

\* C33: the blocks of the system message are in the order identity text,
\* reference documents, character-scoped memories, user-global memories,
\* situational state, cross-persona note; the block of each scope holds the
\* memories recalled for that scope.
C33_BlockOrder ==
    asm.kind = "mem0" =>
        /\ asm.content[1] = BlockMarkers[1]
        /\ FoundMarkers(asm.content) = ClaimedMarkers(asm.in)
        /\ BulletTexts(BlockOf(asm.content, RememberHeader))
             = [i \in DOMAIN asm.in.character_memories |->
                    MemoryText(asm.in.character_memories[i])]
        /\ BulletTexts(BlockOf(asm.content, GeneralFactsHeader))
             = [i \in DOMAIN asm.in.user_global_memories |->
                    MemoryText(asm.in.user_global_memories[i])]

\* a system message with all six blocks, whose two memory blocks differ
C33_Witness ==
    /\ asm.kind = "mem0"
    /\ Len(FoundMarkers(asm.content)) = 6
    /\ BulletTexts(BlockOf(asm.content, RememberHeader)) = <<"likes tea">>
    /\ BulletTexts(BlockOf(asm.content, GeneralFactsHeader)) = <<"has a dog", "">>

\* the probe of a client has started, or has ended
Logged34(what, name) ==
    \E k \in DOMAIN health.log : health.log[k] = ProbeEvent(what, name)

\* C34: health_check starts the probes of all configured clients together:
\* no probe has ended while the probe of another configured client has not
\* started.
C34_ProbesStartTogether ==
    health.state = "probing" =>
        \A n \in Range(providers), m \in Range(providers) :
            Logged34("end", n) => Logged34("start", m)

\* what holds of the code: at most one probe is in flight, and each probe
\* starts only when every probe before it has ended
ProbesOneAtATime ==
    /\ Cardinality(health.running) <= 1
    /\ \A i \in DOMAIN providers, j \in DOMAIN providers :
         i < j /\ Logged34("start", providers[j]) => Logged34("end", providers[i])

\* what holds of the code: the map returned step by step is the map of the
\* loop as a whole
StepwiseMapIsLoopMap ==
    health.state = "returned" =>
        health.results = HealthLoop(providers, health.probes, 1, NoResults).results

\* with two clients configured, the first probe has ended and the second
\* has started after it
SecondProbeAfterFirst ==
    /\ Len(providers) = 2
    /\ Len(health.log) = 3
    /\ health.log[2] = ProbeEvent("end", providers[1])
    /\ health.log[3] = ProbeEvent("start", providers[2])

\* the key of the call of session s after this step
KeyAfter(s) == CacheKey(tts'[s].text, VoiceOrDefault(tts'[s].voice))

\* the call of s returns in this step, from the cache or from the service
ReturnStep(s) == tts'[s] # tts[s] /\ tts'[s].state = "returned"

\* a file that was written whole: a header and the audio
Complete(file) == file.audio # <<>> /\ file.rate > 0 /\ file.width > 0 /\ file.channels > 0

\* C35: whatever the interleaving of the calls, a path returned to a caller,
\* from a cache hit or from a fresh synthesis, is the path of a file that was
\* written whole.
C35_ReturnedPathsComplete ==
    [][\A s \in Sessions :
         ReturnStep(s) /\ tts'[s].path # <<>> =>
             /\ KeyAfter(s) \in DOMAIN cache'
             /\ Complete(cache'[KeyAfter(s)])]_vars

\* what holds of the code: the path of a fresh synthesis is the path of a
\* file written whole in the same step
FreshPathsComplete ==
    [][\A s \in Sessions :
         AnswerStep(s) /\ tts'[s].path # <<>> =>
             /\ KeyAfter(s) \in DOMAIN cache'
             /\ Complete(cache'[KeyAfter(s)])]_vars

\* what holds of the code: a file is left partial only by a call whose write
\* failed after the file was opened
OnlyFailedWriteLeavesPartial ==
    [][\A k \in DOMAIN cache' :
         ~Complete(cache'[k]) /\ (k \in DOMAIN cache => Complete(cache[k])) =>
             \E s \in Sessions :
                 AnswerStep(s) /\ KeyAfter(s) = k /\ tts'[s].net.write = "write_fails"]_vars

\* a cache hit returned the path of a file that holds no audio
PartialFileReturned ==
    \E s \in Sessions :
        /\ tts[s].state = "returned"
        /\ tts[s].attempts = 0
        /\ tts[s].path # <<>>
        /\ ~Complete(cache[CacheKey(tts[s].text, VoiceOrDefault(tts[s].voice))])

WriteFailed(call) ==
    /\ call.attempts = 1
    /\ call.net.connect = "ok"
    /\ call.net.write = "write_fails"
    /\ \E j \in DOMAIN call.net.events :
         /\ StopAt(call.net.events, j)
         /\ \E i \in 1..(j - 1) : call.net.events[i].audio # <<>>

ConversationsOf(c, u) ==
    {v \in store.conversations : v.character_id = c /\ v.user_id = u}

\* C37: for each (persona, user) pair the store holds at most one
\* conversation, also when two turns for the pair start together.
C37_OneConversationPerPair ==
    \A v, w \in store.conversations :
        v.character_id = w.character_id /\ v.user_id = w.user_id => v = w

\* what holds of the code: a turn creates a conversation only from the step
\* after a select that found none, and at most one in a step
CreatedAfterEmptySelect ==
    [][{v.id : v \in store'.conversations} # {v.id : v \in store.conversations} =>
         \E s \in Sessions :
             /\ pc[s] = "create_conversation"
             /\ Cardinality(store'.conversations) = Cardinality(store.conversations) + 1]_vars

\* two turns for one pair have each created a conversation
TwoConversationsOnePair ==
    \E s, u \in Sessions :
        /\ s # u
        /\ inp[s].character_id = inp[u].character_id /\ inp[s].user_id = inp[u].user_id
        /\ Cardinality(ConversationsOf(inp[s].character_id, inp[s].user_id)) = 2
        /\ loc[s].conversation # loc[u].conversation
        /\ outcome[s].kind = "reply" /\ outcome[u].kind = "reply"

\* the turn of s has called remember
Remembering(s) == mem[s].state # "none"

\* C38: within one turn remember writes to the scope (persona, user id) that
\* recall read from, also when the sender is another persona.
C38_RememberScopeIsRecallScope ==
    \A s \in Sessions :
        Remembering(s) =>
            /\ mem[s].character_id = inp[s].character_id
            /\ mem[s].user_id = obs[s].recall_user_id

\* what holds of the code: the two scopes are the same when no sender is
\* named or the sender has no row, and differ when the sender has a row
ScopesDifferBySender ==
    \A s \in Sessions :
        Remembering(s) =>
            /\ mem[s].character_id = inp[s].character_id
            /\ obs[s].recall_user_id = inp[s].user_id
            /\ mem[s].user_id =
                 IF inp[s].from_character_id # NONE /\ Row(inp[s].from_character_id) # <<>>
                 THEN <<"character_", inp[s].from_character_id>>
                 ELSE inp[s].user_id

\* a turn sent by another persona has recalled for the user and remembered
\* for the persona
SenderTurnRemembered ==
    \E s \in Sessions :
        /\ Remembering(s)
        /\ inp[s].from_character_id = "bram"
        /\ obs[s].recall_user_id = <<"u1">>
        /\ mem[s].user_id = <<"character_", "bram">>

\* a model override is set: a name, not None and not the empty string
OverrideSet(model) == model # NONE /\ model # ""

\* the selected client is not the one the request (or the default) names
IsFallback(s) ==
    /\ gen[s].calls # <<>>
    /\ gen[s].calls[1].client #
         (IF gen[s].provider \in {NONE, ""} THEN settings.DEFAULT_LLM_PROVIDER
          ELSE gen[s].provider)

\* C39: generate passes the model override to the selected client whenever
\* it is set, also when that client is the fallback, and passes none when it
\* is unset; the result then names the client's own default model.
C39_ModelOverride ==
    \A s \in Sessions :
        gen[s].calls # <<>> =>
            /\ Len(gen[s].calls) = 1
            /\ OverrideSet(gen[s].model) => gen[s].calls[1].model = gen[s].model
            /\ ~OverrideSet(gen[s].model) => gen[s].calls[1].model = NONE
            /\ gen[s].state = "returned" =>
                 /\ gen[s].result.provider = gen[s].calls[1].client
                 /\ gen[s].result.model =
                      IF OverrideSet(gen[s].model) THEN gen[s].model
                      ELSE IF gen[s].calls[1].client = "ollama" THEN "granite4:micro"
                      ELSE "meta-llama/llama-3.1-8b-instruct:free"

\* a request for an absent backend with an override was answered by the
\* fallback with the override as its model, and another with no override by
\* the client's default model
C39_Witness ==
    \E s, u \in Sessions :
        /\ IsFallback(s) /\ gen[s].model = "mistral"
        /\ gen[s].state = "returned" /\ gen[s].result.model = "mistral"
        /\ gen[u].model = "" /\ gen[u].state = "returned"
        /\ gen[u].result.provider = "openrouter"
        /\ gen[u].result.model = "meta-llama/llama-3.1-8b-instruct:free"

\* C20: once an artifact file exists for a key, no step other than
\* clear_cache deletes or rewrites it.
C20_ArtifactsImmutable ==
    [][\/ TtsClearCache
       \/ \A k \in DOMAIN cache : k \in DOMAIN cache' /\ cache'[k] = cache[k]]_vars

\* what holds of the code: only clear_cache deletes a file
ArtifactsNeverDeleted ==
    [][TtsClearCache \/ DOMAIN cache \subseteq DOMAIN cache']_vars

====
